---- MODULE Spec2Model ----
(***************************************************************************)
(* Model of fmriResponseSummary_RH.py: the per-task evaluators read a log  *)
(* line by line, collect the fields of the open trial record (currTrial),  *)
(* flatten each finalized record into rows of the event table (dfEvent)    *)
(* and normalize the table when the terminal line of the paradigm arrives. *)
(*                                                                         *)
(* Numbers.  A number is a pair <<n, d>>: d > 0 is the rational n/d in     *)
(* lowest terms (the code divides milliseconds by 1000), <<0, 0>> is the   *)
(* null value (Python None / pandas NaN) and <<1, 0>> is the literal       *)
(* string 'n/a' stored in a numeric column.                                *)
(***************************************************************************)
EXTENDS Integers, Sequences, FiniteSets, TLC

\* ------------------------------------------------------------------ bounds
\* number of trial and block frames in one file (the frame that holds the
\* terminal line comes on top)
MaxFrames == 5
\* number of irregular frames (omitted value, missing line, empty frame) in one file
MaxAnomalies == 1
\* rows of the table the normalization step is applied to on its own
MaxRows == 4

\* ------------------------------------------------------------- arithmetic
Nan == <<0, 0>>
NaStr == <<1, 0>>
Int2Num(n) == <<n, 1>>
IsNumber(x) == x[2] > 0
\* pandas isnull(): None and NaN, not the string 'n/a'
IsNull(x) == x = Nan

Abs(n) == IF n < 0 THEN -n ELSE n

RECURSIVE GCD(_, _)
GCD(a, b) == IF b = 0 THEN a ELSE GCD(b, a % b)

\* n/d in lowest terms with a positive denominator; d > 0
Rat(n, d) == LET g == GCD(Abs(n), d) IN <<n \div g, d \div g>>

\* x - y on a pandas column: a null operand gives NaN
NumSub(x, y) ==
    IF IsNumber(x) /\ IsNumber(y)
    THEN Rat(x[1] * y[2] - y[1] * x[2], x[2] * y[2])
    ELSE Nan

NumAdd(x, y) ==
    IF IsNumber(x) /\ IsNumber(y)
    THEN Rat(x[1] * y[2] + y[1] * x[2], x[2] * y[2])
    ELSE Nan

\* x / k for a positive integer k
NumDiv(x, k) == IF IsNumber(x) THEN Rat(x[1], x[2] * k) ELSE Nan

\* DataFrame.replace(np.nan, 'n/a') on one numeric cell
ReplaceNan(x) == IF IsNull(x) THEN NaStr ELSE x

\* ------------------------------------------------------------ sequences
\* the index of a table, in order (dfEvent.index)
Indices(df) == [i \in 1..Len(df) |-> i]

Front(s) == SubSeq(s, 1, Len(s) - 1)
Last(s) == s[Len(s)]

\* DataFrame.reindex(idx) followed by reset_index(drop=True)
Reindex(df, idx) == [i \in 1..Len(idx) |-> df[idx[i]]]

RECURSIVE SeqToSet(_)
SeqToSet(s) == IF s = <<>> THEN {} ELSE {Head(s)} \cup SeqToSet(Tail(s))

\* -------------------------------------------------------------- records
\* dict.keys()
Keys(d) == DOMAIN d
HasAll(d, ks) == ks \subseteq Keys(d)
\* d[k] = v
Put(d, k, v) == (k :> v) @@ d

\* ------------------------------------------------------------ log lines
\* A line "Key: Value" that matches one extraction rule: k is the rule's
\* target field, tok the tokens after the first ': ' (none when the value
\* is omitted) for a numeric rule, s the text after ': ' for a string rule.
NumLine(k, n) == [k |-> k, tok |-> <<n>>, s |-> ""]
OmitLine(k) == [k |-> k, tok |-> <<>>, s |-> ""]
StrLine(k, v) == [k |-> k, tok |-> <<>>, s |-> v]

\* milliseconds between two logged onsets, and the clock of the first one
Tick == 500
StartClock == 5000
\* onsets logged per frame advance the clock by at most FrameTicks ticks
FrameTicks == 4
RLPFrameTicks == 6

VARIABLES
    task,         \* self.currTaskType: the evaluator taskIdentify selected
    pc,           \* "reading", or how the evaluator ended: "terminal", "eof", "raised"
    currTrial,    \* the open trial record (dict field -> value)
    dfEvent,      \* the event table (sequence of rows)
    trialCounter, \* trialCounter
    allTrials,    \* evalReward: records deferred to eventReward2
    rest,         \* lines of the current frame not read yet
    clock,        \* the stimulus clock of the next frame
    nFrames,      \* trial-start lines read so far
    nAnom,        \* irregular frames read so far
    hist,         \* the last flattening step: its kind, the record handed over, the table before it
    locals,       \* local variables of the evaluator: absoluteStart; startTime, endTime
    eventInfo,    \* evalBreath: the lists onset, event_num and response
    lastLine,     \* the field line read last
    closedLog,    \* the records that were open when a trial-start line arrived, in file order
    flatLog,      \* the records handed to the task's event function, in call order
    self,         \* the Response instance: input1, outFileSuffix, spmStruct
    fileNames,    \* __main__: the files of the batch not processed yet
    respData,     \* __main__: what the evaluator returned for the current file
    written       \* the output files written so far, in order

vars == <<task, pc, currTrial, dfEvent, trialCounter, allTrials, rest, clock,
          nFrames, nAnom, hist, locals, eventInfo, lastLine, closedLog,
          flatLog, self, fileNames, respData, written>>

\* the variables of __main__ and of the instance, which an evaluator that
\* reads one file leaves alone
batchVars == <<self, fileNames, respData, written>>

\* Response(): the instance state after __init__
NoInput == [kind |-> "none"]
NewResponse ==
    [input1 |-> NoInput, outFileSuffix |-> "None",
     spmStruct |-> [names |-> << >>, onsets |-> << >>, durations |-> << >>]]

\* what an evaluator returns to __main__: None, or a dict whose 'event' is a
\* table or None
NoData == [ret |-> "None", hasEvent |-> FALSE, event |-> << >>]
DataOf(df) == [ret |-> "dict", hasEvent |-> TRUE, event |-> df]

\* one row of dfEvent (the columns the evaluators compute with; the other
\* columns are copied from the record unchanged)
Row(bname, bnum, tnum, stype, on, dur, rtime, resp) ==
    [block_name |-> bname, block_num |-> bnum, trial_num |-> tnum,
     stimulus_type |-> stype, onset |-> on, duration |-> dur,
     response_time |-> rtime, response |-> resp]

\* the null of a string column
NullStr == "NaN"

\* the value of key k of a frame built with pd.DataFrame(currTrial, index=[0]),
\* NaN when the record has no such key
ColNum(d, k) == IF k \in Keys(d) THEN d[k] ELSE Nan
ColStr(d, k) == IF k \in Keys(d) THEN d[k] ELSE NullStr

\* ------------------------------------------------------ field extraction
\* The numeric branch shared by evalFaces and evalReward: a line with a
\* value token sets int(value), a reaction time of 0 becomes None, and a
\* line without a value token sets None.
ExtractNumeric(trial, line) ==
    IF Len(line.tok) = 1
    THEN IF line.k = "rt" /\ line.tok[1] = 0
         THEN Put(trial, line.k, Nan)
         ELSE Put(trial, line.k, Int2Num(line.tok[1]))
    ELSE Put(trial, line.k, Nan)

\* values of keepString / keys of the frames of evalFaces
FacesString == {"block_name", "stimulus_type", "run_type", "stimulus_file"}
FacesNumeric == {"stim_on", "rt", "resp", "cresp", "fix_on", "block_num", "onset"}

\* one pass of the strCheck / numCheck part of the loop body of evalFaces
ExtractFaces(trial, line) ==
    IF line.k \in FacesString THEN Put(trial, line.k, line.s)
    ELSE IF line.k \in FacesNumeric THEN ExtractNumeric(trial, line)
    ELSE trial

\* ------------------------------------------------------- normalization
\* terminal durations of eventFaces and eventReward
FacesLastDuration == 2
RewardLastDuration == 3
MsPerSecond == 1000

\* a variant of AnchorOnsets that subtracts the first onset but keeps milliseconds
AnchorOnsets_NoScale(df) ==
    [i \in 1..Len(df) |-> [df[i] EXCEPT !.onset = NumSub(df[i].onset, df[1].onset)]]

\* dfEvent['onset'] = (dfEvent['onset'] - dfEvent.loc[0,'onset'])/1000
AnchorOnsets(df) ==
    [i \in 1..Len(df) |->
        [df[i] EXCEPT !.onset = NumDiv(NumSub(df[i].onset, df[1].onset), MsPerSecond)]]

\* a variant of FillDurations that measures each row from the row before it
FillDurations_FromPrevious(df, lastDur) ==
    [i \in 1..Len(df) |->
        [df[i] EXCEPT !.duration =
            IF i > 1 THEN NumSub(df[i].onset, df[i - 1].onset)
            ELSE Int2Num(lastDur)]]

\* the loop over dfEvent.index: duration = next onset - own onset, the last row gets lastDur
FillDurations(df, lastDur) ==
    [i \in 1..Len(df) |->
        [df[i] EXCEPT !.duration =
            IF i < Len(df) THEN NumSub(df[i + 1].onset, df[i].onset)
            ELSE Int2Num(lastDur)]]

\* the end-of-paradigm branch (len(currTrial) == 0) of eventFaces / eventReward
Normalize(df, lastDur) == FillDurations(AnchorOnsets(df), lastDur)

\* dfEvent.replace(np.nan, 'n/a', inplace=True)
ReplaceNanStr(x) == IF x = NullStr THEN "n/a" ELSE x
ReplaceNanAll(df) ==
    [i \in 1..Len(df) |->
        Row(ReplaceNanStr(df[i].block_name), ReplaceNan(df[i].block_num),
            ReplaceNan(df[i].trial_num), ReplaceNanStr(df[i].stimulus_type),
            ReplaceNan(df[i].onset), ReplaceNan(df[i].duration),
            ReplaceNan(df[i].response_time), ReplaceNan(df[i].response))]

\* The outcomes of the end-of-paradigm branch, as a set of [ok, df]:
\* dfEvent.loc[0,'onset'] raises KeyError on an empty table; when the first
\* onset is None in an object column that also holds numbers the
\* subtraction raises TypeError, when it is NaN in a float column every
\* onset becomes NaN: the column type depends on how the frame was built,
\* so both outcomes are possible.
NormalizeOutcomes(df, lastDur) ==
    IF Len(df) = 0 THEN {[ok |-> FALSE, df |-> df]}
    ELSE {[ok |-> TRUE, df |-> Normalize(df, lastDur)]}
         \cup (IF IsNull(df[1].onset) /\ \E i \in 1..Len(df) : IsNumber(df[i].onset)
               THEN {[ok |-> FALSE, df |-> df]} ELSE {})

\* ------------------------------------------------------------ eventFaces
FacesStandardKeys ==
    {"stim_on", "fix_on", "stimulus_type", "trial_num", "block_name",
     "rt", "resp", "cresp", "stimulus_file"}
BoundaryKeys == {"trial_num", "block_name", "block_num", "onset"}

\* the test that sends a record to the "match shapes / match faces" branch
IsBoundary(trial) == HasAll(trial, BoundaryKeys)

\* a variant of FacesStandardRows that appends the stimulus row only
FacesStandardRows_OneRow(trial) ==
    << Row(trial["block_name"], Nan, trial["trial_num"], "stimulus",
           trial["stim_on"], NaStr, trial["rt"], trial["resp"]) >>

\* dfEvent.append(...) of the two rows (stimulus, fixation) of a trial
FacesStandardRows(trial) ==
    << Row(trial["block_name"], Nan, trial["trial_num"], "stimulus",
           trial["stim_on"], NaStr, trial["rt"], trial["resp"]),
       Row(trial["block_name"], Nan, trial["trial_num"], "fixation",
           trial["fix_on"], NaStr, NaStr, NaStr) >>

\* the row appended for a block frame, before the fills
FacesBoundaryRow(trial) ==
    Row(trial["block_name"], trial["block_num"], trial["trial_num"],
        IF trial["block_name"] \in {"ShapesBlockProc"} THEN "MatchShapes" ELSE "MatchFaces",
        trial["onset"], Nan, Nan, Nan)

\* dfEvent.loc[dfEvent['block_name'].isnull(), 'block_name'] = ...; same for block_num
FillBlockFaces(df, trial) ==
    [i \in 1..Len(df) |->
        [df[i] EXCEPT
            !.block_name = IF @ = NullStr THEN trial["block_name"] ELSE @,
            !.block_num = IF IsNull(@) THEN trial["block_num"] ELSE @]]

\* currBlockIdx / prevBlockIdx: an == with None is False for every row
CurrBlockIdx(df, bnum) ==
    SelectSeq(Indices(df), LAMBDA i : IsNumber(bnum) /\ df[i].block_num = bnum)
PrevBlockIdx(df, bnum) ==
    SelectSeq(Indices(df), LAMBDA i : ~(IsNumber(bnum) /\ df[i].block_num = bnum))

\* a variant of BlockOrder that leaves the new row behind the rows of its block
BlockOrder_RowLast(df, bnum) ==
    PrevBlockIdx(df, bnum) \o CurrBlockIdx(df, bnum)

\* "update row order": reindex(prevBlockIdx + [currBlockIdx[-1]] + currBlockIdx[:-1])
BlockOrder(df, bnum) ==
    LET curr == CurrBlockIdx(df, bnum)
        prev == PrevBlockIdx(df, bnum)
    IN  prev \o <<Last(curr)>> \o Front(curr)

\* The lines of the block branch after the two fills: the new (last) row
\* loses its trial number, the last row of the block is named
\* 'Instruction', and the rows are reordered.  df1 is the table after the
\* fills, bnum the record's block number.
Resplice(df1, bnum, noTrial) ==
    LET df2 == [df1 EXCEPT ![Len(df1)].trial_num = noTrial]
        curr == CurrBlockIdx(df2, bnum)
        df3 == [df2 EXCEPT ![Last(curr)].block_name = "Instruction"]
    IN  Reindex(df3, BlockOrder(df3, bnum))

\* a variant of eventFaces in which a block frame keeps the trial number it was opened with
eventFaces_KeepCounter(trial, df, tc) ==
    IF IsBoundary(trial)
    THEN LET df0 == Append(df, FacesBoundaryRow(trial))
         IN  IF CurrBlockIdx(FillBlockFaces(df0, trial), trial["block_num"]) = <<>>
             THEN [ok |-> FALSE, df |-> df, tc |-> tc, shape |-> "boundary"]
             ELSE [ok |-> TRUE,
                   df |-> Resplice(FillBlockFaces(df0, trial), trial["block_num"], Nan),
                   tc |-> tc,
                   shape |-> "boundary"]
    ELSE IF ~HasAll(trial, FacesStandardKeys)
         THEN [ok |-> FALSE, df |-> df, tc |-> tc, shape |-> "other"]
         ELSE [ok |-> TRUE, df |-> df \o FacesStandardRows(trial), tc |-> tc,
               shape |-> "standard"]

\* eventFaces(currTrial, dfEvent, trialCounter) for a non-empty record:
\* [ok, df, tc, shape]; ok is FALSE when the call raises (KeyError for a
\* field the record lacks, IndexError when no row carries the block number)
eventFaces(trial, df, tc) ==
    IF IsBoundary(trial)
    THEN LET df0 == Append(df, FacesBoundaryRow(trial))
         IN  IF CurrBlockIdx(FillBlockFaces(df0, trial), trial["block_num"]) = <<>>
             THEN [ok |-> FALSE, df |-> df, tc |-> tc, shape |-> "boundary"]
             ELSE [ok |-> TRUE,
                   df |-> Resplice(FillBlockFaces(df0, trial), trial["block_num"], Nan),
                   tc |-> tc - 1,
                   shape |-> "boundary"]
    ELSE IF ~HasAll(trial, FacesStandardKeys)
         THEN [ok |-> FALSE, df |-> df, tc |-> tc, shape |-> "other"]
         ELSE [ok |-> TRUE, df |-> df \o FacesStandardRows(trial), tc |-> tc,
               shape |-> "standard"]

\* ------------------------------------------------------------- evalFaces
\* The frames a Faces log can hold.  A trial frame logs the condition, the
\* procedure, the stimulus file, the probe onset, RT, RESP, CRESP and the
\* fixation onset; a block frame logs the block procedure, the block
\* number and the onset of the "match" instruction.
FacesTrialFrame(t, v) ==
    << StrLine("block_name", "Fear"),
       StrLine("stimulus_type", "FearTrialProc"),
       StrLine("stimulus_file", "face.bmp") >>
    \o << IF v = "stimOmitted" THEN OmitLine("stim_on") ELSE NumLine("stim_on", t) >>
    \o (CASE v = "noResponse" -> << NumLine("rt", 0), OmitLine("resp") >>
          [] v = "rtOmitted" -> << OmitLine("rt"), OmitLine("resp") >>
          [] OTHER -> << NumLine("rt", 700), NumLine("resp", 1) >>)
    \o << NumLine("cresp", 1) >>
    \o (CASE v = "fixMissing" -> << >>
          [] OTHER -> << NumLine("fix_on", t + Tick) >>)

BlockProcName(b) == IF b % 2 = 1 THEN "ShapesBlockProc" ELSE "FearBlockProc"

FacesBlockFrame(t, b, v) ==
    << StrLine("block_name", BlockProcName(b)) >>
    \o << IF v = "numOmitted" THEN OmitLine("block_num") ELSE NumLine("block_num", b) >>
    \o << IF v = "onsetOmitted" THEN OmitLine("onset") ELSE NumLine("onset", t) >>

BlockNums == {1, 2}

\* the frames of a regular run, and the irregular ones (no response, a
\* value or a line is missing, an empty frame)
FacesRegular(t) ==
    {FacesTrialFrame(t, "ok")} \cup {FacesBlockFrame(t, b, "ok") : b \in BlockNums}
FacesIrregular(t) ==
    {FacesTrialFrame(t, v) : v \in {"noResponse", "rtOmitted", "stimOmitted", "fixMissing"}}
    \cup {FacesBlockFrame(t, 1, v) : v \in {"numOmitted", "onsetOmitted"}}
    \cup {<< >>}

\* the header of the file, read into the record that is open before the first frame
FacesHeader == << StrLine("run_type", "HaririFaces2_dansk") >>
Header(t) == IF t = "Faces" THEN FacesHeader ELSE << >>

\* The frame that follows a trial-start line: a regular or an irregular
\* one, or, after MaxFrames frames, the frame of the session level, which
\* holds no field line before the terminal line.
NextFrame(regular, irregular) ==
    \/ /\ nFrames < MaxFrames
       /\ rest' \in regular
       /\ nAnom' = nAnom
    \/ /\ nFrames < MaxFrames
       /\ nAnom < MaxAnomalies
       /\ rest' \in irregular
       /\ nAnom' = nAnom + 1
    \/ /\ nFrames = MaxFrames
       /\ rest' = << >>
       /\ nAnom' = nAnom

\* "if trialCounter > 1": a record was opened by an earlier trial-start line
IsOpen(tc) == tc > 1

NoLine == [k |-> "", tok |-> << >>, s |-> ""]

NoHist == [op |-> "none", rec |-> << >>, before |-> << >>]

\* "*** LogFrame Start ***": the new-trial branch of evalFaces, then the
\* frame that follows the line is chosen
evalFaces_LogFrameStart ==
    /\ task = "Faces" /\ pc = "reading" /\ rest = << >>
    /\ nFrames <= MaxFrames
    /\ LET tc1 == trialCounter + 1
           r == eventFaces(currTrial, dfEvent, tc1)
       IN  IF IsOpen(tc1)
           THEN /\ flatLog' = Append(flatLog, [rec |-> currTrial, to |-> "event", by |-> "start"])
                /\ hist' = [op |-> IF r.ok THEN r.shape ELSE "raise",
                            rec |-> currTrial, before |-> dfEvent]
                /\ IF r.ok
                   THEN /\ dfEvent' = r.df
                        /\ trialCounter' = r.tc
                        /\ currTrial' = "trial_num" :> Int2Num(r.tc)
                        /\ pc' = "reading"
                   ELSE /\ pc' = "raised"
                        /\ UNCHANGED <<dfEvent, trialCounter, currTrial>>
           ELSE /\ trialCounter' = tc1
                /\ currTrial' = "trial_num" :> Int2Num(tc1)
                /\ hist' = NoHist
                /\ UNCHANGED <<dfEvent, pc, flatLog>>
    /\ closedLog' = IF nFrames > 0 THEN Append(closedLog, currTrial) ELSE closedLog
    /\ nFrames' = nFrames + 1
    /\ clock' = clock + FrameTicks * Tick
    /\ NextFrame(FacesRegular(clock), FacesIrregular(clock))
    /\ UNCHANGED <<batchVars, task, allTrials, locals, eventInfo, lastLine>>

\* any other line: the strCheck / numCheck part of the loop body
evalFaces_Line ==
    /\ task = "Faces" /\ pc = "reading" /\ rest # << >>
    /\ currTrial' = ExtractFaces(currTrial, Head(rest))
    /\ lastLine' = Head(rest)
    /\ rest' = Tail(rest)
    /\ UNCHANGED <<batchVars, task, pc, dfEvent, trialCounter, allTrials, clock, nFrames,
                   nAnom, hist, closedLog, flatLog, locals, eventInfo>>

\* a variant of FacesEndOfParadigm that flattens the open record first
FacesEndOfParadigm_FlattenOpen(trial, df) ==
    LET f == eventFaces(trial, df, 0)
    IN  IF f.ok
        THEN {[ok |-> r.ok, df |-> IF r.ok THEN ReplaceNanAll(r.df) ELSE df, op |-> "normalize"] :
                 r \in NormalizeOutcomes(f.df, FacesLastDuration)}
        ELSE {[ok |-> FALSE, df |-> df, op |-> "normalize"]}

\* The "signals end of paradigm" branch of evalFaces: eventFaces is called
\* with an empty record, not with the open one (trial), then NaN is
\* replaced.  The outcomes, as a set of [ok, df, op].
FacesEndOfParadigm(trial, df) ==
    {[ok |-> r.ok, df |-> IF r.ok THEN ReplaceNanAll(r.df) ELSE df, op |-> "normalize"] :
        r \in NormalizeOutcomes(df, FacesLastDuration)}

\* "Procedure: FacesRunProc"
evalFaces_Terminal ==
    /\ task = "Faces" /\ pc = "reading" /\ rest = << >>
    /\ \E r \in FacesEndOfParadigm(currTrial, dfEvent) :
          /\ pc' = IF r.ok THEN "terminal" ELSE "raised"
          /\ dfEvent' = r.df
          /\ hist' = [op |-> IF r.ok THEN r.op ELSE "raise",
                      rec |-> currTrial, before |-> dfEvent]
    /\ UNCHANGED <<batchVars, task, currTrial, trialCounter, allTrials, rest, clock, nFrames,
                   nAnom, closedLog, flatLog, locals, eventInfo, lastLine>>

\* the file ends without the terminal line: dfEvent is returned as it is
evalFaces_EndOfFile ==
    /\ task = "Faces" /\ pc = "reading" /\ rest = << >>
    /\ pc' = "eof"
    /\ UNCHANGED <<batchVars, task, currTrial, dfEvent, trialCounter, allTrials, rest, clock,
                   nFrames, nAnom, hist, locals, eventInfo, lastLine, closedLog,
          flatLog>>

\* ----------------------------------------------------------- eventReward
RewardString == {"subtype", "low_num", "high_num", "block_name"}
RewardNumeric ==
    {"guess_on", "rt", "resp", "num_on", "feed_on", "fix_on", "block_num",
     "onset", "onset2onset"}

\* l_split[1].split('BlockProc')[0] for the block procedures of the task
StripBlockProc(s) ==
    CASE s = "RewardBlockProc" -> "Reward"
      [] s = "LossBlockProc" -> "Loss"
      [] s = "ControlBlockProc" -> "Control"
      [] OTHER -> s

\* feedbackDict: the feedback kind named by the key of a feedback-onset line
FeedbackKind(key) ==
    CASE key = "FeedbackUpArrow.OnsetTime" -> "up_arrow"
      [] key = "FeedbackDownArrow.OnsetTime" -> "down_arrow"
      [] key = "ControlFeedbackCircle.OnsetTime" -> "circle"
      [] OTHER -> ""

\* one pass of the strCheck / numCheck part of the loop body of evalReward
ExtractReward(trial, line) ==
    IF line.k \in RewardString
    THEN Put(trial, line.k, IF line.k = "block_name" THEN StripBlockProc(line.s) ELSE line.s)
    ELSE IF line.k \in RewardNumeric
    THEN LET t1 == ExtractNumeric(trial, line)
         IN  IF Len(line.tok) = 1 /\ line.k = "feed_on"
             THEN Put(t1, "feedback", FeedbackKind(line.s))
             ELSE t1
    ELSE trial

\* Python truth value of a response code: None and 0 are false
Truthy(x) == IsNumber(x) /\ x[1] # 0

\* The if / elif chain of eventReward that sets num_shown and feedback:
\* the keys the record holds afterwards.
RewardDerivedKeys(trial) ==
    IF (trial["subtype"] \in {"Reward", "Loss"} /\ Truthy(trial["resp"]))
       \/ trial["subtype"] = "Control"
       \/ ~Truthy(trial["resp"])
    THEN Keys(trial) \cup {"num_shown"}
         \cup (IF ~Truthy(trial["resp"]) THEN {"feedback"} ELSE {})
         \cup (IF trial["subtype"] = "Control" THEN {"high_num", "low_num"} ELSE {})
    ELSE Keys(trial)

\* the keys eventReward reads before and while it builds currEvent
RewardReadKeys == {"guess_on", "num_on", "feed_on", "fix_on", "subtype", "resp"}
RewardEventKeys ==
    {"trial_num", "rt", "resp", "num_shown", "high_num", "low_num", "subtype", "feedback"}

\* currTrial['rt'] / 1000 unless it is None
RtSeconds(x) == IF IsNull(x) THEN x ELSE NumDiv(x, MsPerSecond)

\* the four rows (guess, number, feedback, fixation) of a trial
RewardStandardRows(trial) ==
    << Row("n/a", Nan, trial["trial_num"], "guess", trial["guess_on"], NaStr,
           RtSeconds(trial["rt"]), trial["resp"]),
       Row("n/a", Nan, trial["trial_num"], "number", trial["num_on"], NaStr, NaStr, NaStr),
       Row("n/a", Nan, trial["trial_num"], "feedback", trial["feed_on"], NaStr, NaStr, NaStr),
       Row("n/a", Nan, trial["trial_num"], "fixation", trial["fix_on"], NaStr, NaStr, NaStr) >>

\* the row appended for a block frame: stimulus_type is set for the three
\* known block names only
RewardBoundaryRow(trial) ==
    Row(trial["block_name"], trial["block_num"], trial["trial_num"],
        CASE trial["block_name"] \in {"Reward", "Loss"} -> "GuessNumber"
          [] trial["block_name"] = "Control" -> "PressFinger"
          [] OTHER -> ColStr(trial, "stimulus_type"),
        trial["onset"], Nan, Nan, Nan)

\* a variant of FillBlockReward that fills the block name only
FillBlockReward_NameOnly(df, trial) ==
    [i \in 1..Len(df) |->
        [df[i] EXCEPT !.block_name = IF @ = "n/a" THEN trial["block_name"] ELSE @]]

\* block_name is filled where it is the string 'n/a', block_num where it is null
FillBlockReward(df, trial) ==
    [i \in 1..Len(df) |->
        [df[i] EXCEPT
            !.block_name = IF @ = "n/a" THEN trial["block_name"] ELSE @,
            !.block_num = IF IsNull(@) THEN trial["block_num"] ELSE @]]

\* eventReward(currTrial, dfEvent, trialCounter) for a non-empty record
eventReward(trial, df, tc) ==
    IF IsBoundary(trial)
    THEN LET df0 == Append(df, RewardBoundaryRow(trial))
         IN  IF CurrBlockIdx(FillBlockReward(df0, trial), trial["block_num"]) = <<>>
             THEN [ok |-> FALSE, df |-> df, tc |-> tc, shape |-> "boundary"]
             ELSE [ok |-> TRUE,
                   df |-> Resplice(FillBlockReward(df0, trial), trial["block_num"], NaStr),
                   tc |-> tc - 1,
                   shape |-> "boundary"]
    ELSE IF ~HasAll(trial, RewardReadKeys)
         THEN [ok |-> FALSE, df |-> df, tc |-> tc, shape |-> "other"]
         ELSE IF ~(RewardEventKeys \subseteq RewardDerivedKeys(trial))
         THEN [ok |-> FALSE, df |-> df, tc |-> tc, shape |-> "other"]
         ELSE [ok |-> TRUE, df |-> df \o RewardStandardRows(trial), tc |-> tc,
               shape |-> "standard"]

\* ---------------------------------------------------------- eventReward2
\* instr_dur, and the fixed duration of the number and feedback phases (1/2 s)
InstrDur == 3
Half == Rat(1, 2)

HasNumber(d, k) == k \in Keys(d) /\ IsNumber(d[k])

\* the 'Instruction' row that opens a block
InstructionRow(on, bnum) ==
    Row("Instruction", Int2Num(bnum), NaStr, "n/a", on, Int2Num(InstrDur), NaStr, NaStr)

\* x.replace('n/a', name) on every block_name of currBlock
LabelBlock(rows, name) ==
    [i \in 1..Len(rows) |->
        [rows[i] EXCEPT !.block_name = IF @ = "n/a" THEN name ELSE @]]

\* The state of the loop of eventReward2: ok (no exception so far), the
\* rows of currBlock, trialCounter, blockCounter, overallStartTime, and
\* currFixatDur with fixBound telling whether it was ever assigned.
Reward2Start(all) ==
    [ok |-> TRUE, rows |-> << InstructionRow(Int2Num(0), 1) >>, tc |-> 0, bc |-> 1,
     start |-> NumSub(all[1]["guess_on"], Int2Num(InstrDur * MsPerSecond)),
     fixDur |-> Nan, fixBound |-> FALSE]

\* the 'subtype' branch of the loop body for all[j] (j counts from 1)
Reward2Trial(all, j, st) ==
    LET t == all[j]
        n == Len(all)
        guessOn == NumDiv(NumSub(t["guess_on"], st.start), MsPerSecond)
        guessDur == NumDiv(t["onset2onset"], MsPerSecond)
        numbrOn == NumAdd(guessOn, guessDur)
        feedbOn == NumAdd(numbrOn, Half)
        fixatOn == NumAdd(feedbOn, Half)
        nextIsTrial == "subtype" \in Keys(all[j + 1])
        skipOne == ~nextIsTrial /\ j + 2 < n
        nextRec == IF nextIsTrial THEN all[j + 1] ELSE all[j + 2]
        nextGuessOn == NumDiv(NumSub(nextRec["guess_on"], st.start), MsPerSecond)
        left == NumSub(NumSub(NumSub(NumSub(nextGuessOn, guessOn), guessDur), Half), Half)
        assigned == nextIsTrial \/ skipOne
        fixDur == IF nextIsTrial THEN left
                  ELSE IF skipOne THEN NumSub(left, Int2Num(InstrDur))
                  ELSE st.fixDur
        bn == Int2Num(st.bc)
        tn == Int2Num(st.tc + 1)
        answered == ~IsNull(t["rt"])
        raises ==
            \/ ~HasNumber(t, "guess_on") \/ ~HasNumber(t, "onset2onset")
            \/ (assigned /\ ~HasNumber(nextRec, "guess_on"))
            \/ (~assigned /\ ~st.fixBound)
            \/ "rt" \notin Keys(t)
            \/ (answered /\ "resp" \notin Keys(t))
            \/ (t["subtype"] \in {"Reward", "Loss"}
                    /\ ~({"high_num", "low_num", "resp"} \subseteq Keys(t)))
            \/ (t["subtype"] = "Control" /\ "resp" \notin Keys(t))
            \/ t["subtype"] \notin {"Reward", "Loss", "Control"}
    IN  IF raises THEN [st EXCEPT !.ok = FALSE]
        ELSE [st EXCEPT
                !.tc = @ + 1,
                !.fixDur = fixDur,
                !.fixBound = TRUE,
                !.rows = @ \o
                    << Row("n/a", bn, tn, "guess", guessOn, guessDur,
                           IF answered THEN NumDiv(t["rt"], MsPerSecond) ELSE NaStr,
                           IF answered THEN t["resp"] ELSE NaStr),
                       Row("n/a", bn, tn, "number", numbrOn, Half, NaStr, NaStr),
                       Row("n/a", bn, tn, "feedback", feedbOn, Half, NaStr, NaStr),
                       Row("n/a", bn, tn, "fixation", fixatOn, fixDur, NaStr, NaStr) >>]

\* a variant of Reward2Block that starts the Instruction row at the onset of the last row
Reward2Block_AtLastOnset(all, j, st) ==
    LET labelled == LabelBlock(st.rows, all[j]["block_name"])
        lastRow == Last(labelled)
    IN  [st EXCEPT
            !.bc = @ + 1,
            !.rows = Append(labelled,
                            InstructionRow(lastRow.onset, lastRow.block_num[1] + 1))]

\* the 'block_name' branch of the loop body: the rows of the block are
\* labelled and the next block's Instruction row is appended
Reward2Block(all, j, st) ==
    LET labelled == LabelBlock(st.rows, all[j]["block_name"])
        lastRow == Last(labelled)
    IN  [st EXCEPT
            !.bc = @ + 1,
            !.rows = Append(labelled,
                            InstructionRow(NumAdd(lastRow.onset, lastRow.duration),
                                           lastRow.block_num[1] + 1))]

RECURSIVE Reward2Loop(_, _, _)
\* for i in range(len(allTrials) - 1), from record j on
Reward2Loop(all, j, st) ==
    IF j > Len(all) - 1 \/ ~st.ok THEN st
    ELSE Reward2Loop(all, j + 1,
            IF "subtype" \in Keys(all[j]) THEN Reward2Trial(all, j, st)
            ELSE IF "block_name" \in Keys(all[j]) THEN Reward2Block(all, j, st)
            ELSE st)

\* eventReward2(allTrials, dfEvent, trialCounter): [ok, df].  It raises
\* when the list holds a single record (currBlock is never bound) and when
\* the first record has no guess onset.
eventReward2(all) ==
    IF Len(all) < 2 \/ ~HasNumber(all[1], "guess_on")
    THEN [ok |-> FALSE, df |-> << >>]
    ELSE LET st == Reward2Loop(all, 1, Reward2Start(all))
         IN  [ok |-> st.ok, df |-> st.rows]

\* ------------------------------------------------------------ evalReward
\* The frames a Reward log can hold.  A trial frame logs the condition, the
\* two numbers, the guess onset and onset-to-onset time, RT, RESP and the
\* number, feedback and fixation onsets; a block frame logs the block
\* procedure, the block number and the instruction onset.  "direct" frames
\* carry both a number onset and an instruction onset; "reduced" trial
\* frames lack the number, feedback and fixation onsets.
RewardTrialFrame(t, v) ==
    << StrLine("subtype", "Reward"), StrLine("low_num", "2"), StrLine("high_num", "8") >>
    \o << IF v = "guessOmitted" THEN OmitLine("guess_on") ELSE NumLine("guess_on", t) >>
    \o << NumLine("onset2onset", Tick) >>
    \o (CASE v = "noResponse" -> << NumLine("rt", 0), OmitLine("resp") >>
          [] v = "rtOmitted" -> << OmitLine("rt"), OmitLine("resp") >>
          [] OTHER -> << NumLine("rt", 700), NumLine("resp", 3) >>)
    \o (IF v = "reduced" THEN << >>
        ELSE << NumLine("num_on", t + Tick),
                [k |-> "feed_on", tok |-> << t + 2 * Tick >>,
                 s |-> "FeedbackUpArrow.OnsetTime"] >>)
    \o (IF v \in {"reduced", "fixMissing"} THEN << >>
        ELSE << NumLine("fix_on", t + 3 * Tick) >>)
    \o (IF v \in {"reduced", "full"} THEN << >> ELSE << NumLine("onset", t) >>)

RewardBlockFrame(t, b, v) ==
    << StrLine("block_name", "RewardBlockProc") >>
    \o << IF v = "numOmitted" THEN OmitLine("block_num") ELSE NumLine("block_num", b) >>
    \o << IF v = "onsetOmitted" THEN OmitLine("onset") ELSE NumLine("onset", t) >>
    \o (IF v = "plain" THEN << >> ELSE << NumLine("num_on", t + Tick) >>)

RewardRegular(t) ==
    {RewardTrialFrame(t, v) : v \in {"direct", "full"}}
    \cup {RewardBlockFrame(t, b, "direct") : b \in BlockNums}
RewardIrregular(t) ==
    {RewardTrialFrame(t, v) : v \in {"reduced", "noResponse", "rtOmitted", "guessOmitted",
                                     "fixMissing"}}
    \cup {RewardBlockFrame(t, 1, v) : v \in {"plain", "numOmitted", "onsetOmitted"}}
    \cup {<< >>}

\* any(['guess_on' and not 'num_on' in currTrial.keys(),
\*      'block_name' and not 'onset' in currTrial.keys()]) and len(currTrial.keys()) > 1:
\* 'guess_on' and 'block_name' are non-empty strings, so each element is
\* the value of its "not ... in" part
DeferReward(trial) ==
    /\ \/ ~("num_on" \in Keys(trial))
       \/ ~("onset" \in Keys(trial))
    /\ Cardinality(Keys(trial)) > 1

\* "*** LogFrame Start ***": the new-trial branch of evalReward
evalReward_LogFrameStart ==
    /\ task = "Reward" /\ pc = "reading" /\ rest = << >>
    /\ nFrames <= MaxFrames
    /\ LET tc1 == trialCounter + 1
           r == eventReward(currTrial, dfEvent, tc1)
       IN  /\ closedLog' = IF nFrames > 0 THEN Append(closedLog, currTrial) ELSE closedLog
           /\ IF IsOpen(tc1) /\ DeferReward(currTrial)
              THEN /\ allTrials' = Append(allTrials, currTrial)
                   /\ flatLog' = Append(flatLog, [rec |-> currTrial, to |-> "defer", by |-> "start"])
                   /\ hist' = [op |-> "defer", rec |-> currTrial, before |-> dfEvent]
                   /\ trialCounter' = tc1
                   /\ currTrial' = "trial_num" :> Int2Num(tc1)
                   /\ UNCHANGED <<dfEvent, pc>>
              ELSE IF IsOpen(tc1)
              THEN /\ flatLog' = Append(flatLog, [rec |-> currTrial, to |-> "event", by |-> "start"])
                   /\ hist' = [op |-> IF r.ok THEN r.shape ELSE "raise",
                               rec |-> currTrial, before |-> dfEvent]
                   /\ IF r.ok
                      THEN /\ dfEvent' = r.df
                           /\ trialCounter' = r.tc
                           /\ currTrial' = "trial_num" :> Int2Num(r.tc)
                           /\ pc' = "reading"
                      ELSE /\ pc' = "raised"
                           /\ UNCHANGED <<dfEvent, trialCounter, currTrial>>
                   /\ UNCHANGED allTrials
              ELSE /\ trialCounter' = tc1
                   /\ currTrial' = "trial_num" :> Int2Num(tc1)
                   /\ hist' = NoHist
                   /\ UNCHANGED <<dfEvent, pc, flatLog, allTrials>>
    /\ nFrames' = nFrames + 1
    /\ clock' = clock + FrameTicks * Tick
    /\ NextFrame(RewardRegular(clock), RewardIrregular(clock))
    /\ UNCHANGED <<batchVars, task, locals, eventInfo, lastLine>>

evalReward_Line ==
    /\ task = "Reward" /\ pc = "reading" /\ rest # << >>
    /\ currTrial' = ExtractReward(currTrial, Head(rest))
    /\ lastLine' = Head(rest)
    /\ rest' = Tail(rest)
    /\ UNCHANGED <<batchVars, task, pc, dfEvent, trialCounter, allTrials, clock, nFrames,
                   nAnom, hist, closedLog, flatLog, locals, eventInfo>>

\* The "signals end of paradigm" branch of evalReward: eventReward2 on the
\* deferred records when there are any, the end-of-paradigm branch of
\* eventReward otherwise; the open record (trial) is not passed on; then
\* NaN is replaced.  The outcomes, as a set of [ok, df, op].
RewardEndOfParadigm(trial, df, all) ==
    IF Len(all) > 0
    THEN LET r == eventReward2(all)
         IN  {[ok |-> r.ok, df |-> IF r.ok THEN ReplaceNanAll(r.df) ELSE df,
               op |-> "reconstruct"]}
    ELSE {[ok |-> r.ok, df |-> IF r.ok THEN ReplaceNanAll(r.df) ELSE df,
           op |-> "normalize"] : r \in NormalizeOutcomes(df, RewardLastDuration)}

\* "Procedure: GuesingRunProc"
evalReward_Terminal ==
    /\ task = "Reward" /\ pc = "reading" /\ rest = << >>
    /\ \E r \in RewardEndOfParadigm(currTrial, dfEvent, allTrials) :
          /\ pc' = IF r.ok THEN "terminal" ELSE "raised"
          /\ dfEvent' = r.df
          /\ hist' = [op |-> IF r.ok THEN r.op ELSE "raise",
                      rec |-> currTrial, before |-> dfEvent]
    /\ UNCHANGED <<batchVars, task, currTrial, trialCounter, allTrials, rest, clock, nFrames,
                   nAnom, closedLog, flatLog, locals, eventInfo, lastLine>>

\* the file ends without the terminal line: evalReward returns None and
\* writeRespCsv raises on respOutput['event']
evalReward_EndOfFile ==
    /\ task = "Reward" /\ pc = "reading" /\ rest = << >>
    /\ pc' = "raised"
    /\ hist' = [op |-> "raise", rec |-> currTrial, before |-> dfEvent]
    /\ UNCHANGED <<batchVars, task, currTrial, dfEvent, trialCounter, allTrials, rest, clock,
                   nFrames, nAnom, closedLog, flatLog, locals, eventInfo, lastLine>>

\* -------------------------------------------------------------- eventRLP
RLPString == {"left_image", "right_image", "feedback_correct", "feedback_incorrect"}
RLPNumeric ==
    {"fix_on", "fix_off", "cue_on", "cue_off", "resp_on", "resp_off", "feed_on",
     "feed_off", "resp", "cresp", "rt", "break_on", "ready_on"}

\* the strCheck / numCheck part of the loop body of evalRLP
ExtractRLP(trial, line) ==
    IF line.k \in RLPString THEN Put(trial, line.k, line.s)
    ELSE IF line.k \in RLPNumeric
    THEN IF Len(line.tok) = 1
         THEN IF line.k = "rt" /\ line.tok[1] = 0
              THEN Put(trial, line.k, Nan)
              ELSE Put(trial, line.k, Int2Num(line.tok[1]))
         ELSE Put(trial, line.k, Nan)
    ELSE trial

\* absoluteStart after the line: the first fixation onset of trial 1
StartAfter(start, line, tc) ==
    IF line.k = "fix_on" /\ Len(line.tok) = 1 /\ tc = 1
    THEN Int2Num(line.tok[1])
    ELSE start

RLPBreakKeys == {"trial_num", "block_num", "onset", "stimulus_type"}
RLPStandardKeys ==
    {"trial_num", "block_num", "reinforcement_ratio", "fix_on", "fix_off", "cue_on",
     "cue_off", "resp_on", "resp_off", "feed_on", "rt", "resp", "cresp", "left_image",
     "right_image", "feedback_correct", "feedback_incorrect"}
\* the values eventRLP subtracts or divides: None raises TypeError
RLPTimes == {"fix_on", "fix_off", "cue_on", "cue_off", "resp_on", "resp_off", "feed_on"}

\* (x - absoluteStart) / 1000
SinceStart(x, start) == NumDiv(NumSub(x, start), MsPerSecond)

\* the four rows (fixation, cue, response, feedback) of a trial
RLPStandardRows(trial, start) ==
    << Row(NullStr, trial["block_num"], trial["trial_num"], "fixation",
           SinceStart(trial["fix_on"], start),
           NumDiv(NumSub(trial["fix_off"], trial["fix_on"]), MsPerSecond), NaStr, NaStr),
       Row(NullStr, trial["block_num"], trial["trial_num"], "cue",
           SinceStart(trial["cue_on"], start),
           NumDiv(NumSub(trial["cue_off"], trial["cue_on"]), MsPerSecond),
           RtSeconds(trial["rt"]), trial["resp"]),
       Row(NullStr, trial["block_num"], trial["trial_num"], "response",
           SinceStart(trial["resp_on"], start),
           NumDiv(NumSub(trial["resp_off"], trial["resp_on"]), MsPerSecond), NaStr, NaStr),
       Row(NullStr, trial["block_num"], trial["trial_num"], "feedback",
           SinceStart(trial["feed_on"], start), Nan, NaStr, NaStr) >>

\* the row of a break or get-ready record
RLPBreakRow(trial, start) ==
    Row(NullStr, trial["block_num"], trial["trial_num"], trial["stimulus_type"],
        SinceStart(trial["onset"], start), Nan, Nan, Nan)

\* eventRLP(currTrial, dfEvent, absoluteStart): [ok, df, shape]
eventRLP(trial, df, start) ==
    IF HasAll(trial, RLPBreakKeys)
    THEN IF IsNumber(start) /\ IsNumber(trial["onset"])
         THEN [ok |-> TRUE, df |-> Append(df, RLPBreakRow(trial, start)), shape |-> "boundary"]
         ELSE [ok |-> FALSE, df |-> df, shape |-> "boundary"]
    ELSE IF HasAll(trial, RLPStandardKeys) /\ IsNumber(start)
            /\ \A k \in RLPTimes : IsNumber(trial[k])
         THEN [ok |-> TRUE, df |-> df \o RLPStandardRows(trial, start), shape |-> "standard"]
         ELSE [ok |-> FALSE, df |-> df, shape |-> "other"]

\* fallback duration of the last row
RLPLastDuration == 30

\* a variant of RLPDurations that leaves the last row without a fallback
RLPDurations_NoFallback(df) ==
    [i \in 1..Len(df) |->
        IF IsNull(df[i].duration) /\ i + 1 <= Len(df)
        THEN [df[i] EXCEPT !.duration = NumSub(df[i + 1].onset, df[i].onset)]
        ELSE df[i]]

\* "compute durations": every row whose duration is NaN gets the distance
\* to the next row's onset, the last row gets the fallback
RLPDurations(df) ==
    [i \in 1..Len(df) |->
        IF IsNull(df[i].duration)
        THEN [df[i] EXCEPT !.duration =
                IF i + 1 <= Len(df) THEN NumSub(df[i + 1].onset, df[i].onset)
                ELSE Int2Num(RLPLastDuration)]
        ELSE df[i]]

\* --------------------------------------------------------------- evalRLP
\* A trial frame of an RLP log: 'Procedure: Stimulus' is followed by the
\* running block list, the images and feedback texts, and the onsets and
\* offsets of fixation, cues, response and feedback; a break frame ends
\* with the break text onset, and possibly the scanner-wait onset.
RunningLine(b, ratio) == [k |-> "Running", tok |-> << b, ratio >>, s |-> ""]

RLPTrialFrame(t, v) ==
    (IF v = "noRunning" THEN << >> ELSE << RunningLine(1, 80) >>)
    \o << StrLine("left_image", "A.bmp"), StrLine("right_image", "B.bmp"),
          StrLine("feedback_correct", "Win"), StrLine("feedback_incorrect", "Lose") >>
    \o << IF v = "fixOmitted" THEN OmitLine("fix_on") ELSE NumLine("fix_on", t),
          NumLine("fix_off", t + Tick), NumLine("cue_on", t + Tick) >>
    \o (CASE v = "noResponse" -> << NumLine("rt", 0), OmitLine("resp") >>
          [] v = "rtOmitted" -> << OmitLine("rt"), OmitLine("resp") >>
          [] OTHER -> << NumLine("rt", 700), NumLine("resp", 1) >>)
    \o << NumLine("cresp", 1), NumLine("cue_off", t + 2 * Tick),
          NumLine("resp_on", t + 2 * Tick), NumLine("resp_off", t + 3 * Tick),
          NumLine("feed_on", t + 3 * Tick) >>
    \o (CASE v \in {"break", "breakReady"} -> << NumLine("break_on", t + 4 * Tick) >>
          [] v = "breakOmitted" -> << OmitLine("break_on") >>
          [] OTHER -> << >>)
    \o (IF v = "breakReady" THEN << NumLine("ready_on", t + 5 * Tick) >> ELSE << >>)

RLPRegular(t) == {RLPTrialFrame(t, v) : v \in {"ok", "break", "breakReady"}}
RLPIrregular(t) ==
    {RLPTrialFrame(t, v) : v \in {"noResponse", "rtOmitted", "fixOmitted", "noRunning",
                                  "breakOmitted"}}
    \cup {<< >>}

\* 'Procedure: Stimulus': the new-trial branch of evalRLP
evalRLP_TrialStart ==
    /\ task = "RLP" /\ pc = "reading" /\ rest = << >>
    /\ nFrames < MaxFrames
    /\ LET tc1 == trialCounter + 1
           r == eventRLP(currTrial, dfEvent, locals["absoluteStart"])
       IN  /\ trialCounter' = tc1
           /\ IF IsOpen(tc1)
              THEN /\ flatLog' = Append(flatLog, [rec |-> currTrial, to |-> "event",
                                                  by |-> "start"])
                   /\ hist' = [op |-> IF r.ok THEN r.shape ELSE "raise",
                               rec |-> currTrial, before |-> dfEvent]
                   /\ dfEvent' = r.df
                   /\ pc' = IF r.ok THEN "reading" ELSE "raised"
                   /\ currTrial' = IF r.ok THEN "trial_num" :> Int2Num(tc1) ELSE currTrial
              ELSE /\ currTrial' = "trial_num" :> Int2Num(tc1)
                   /\ hist' = NoHist
                   /\ UNCHANGED <<dfEvent, pc, flatLog>>
    /\ closedLog' = IF nFrames > 0 THEN Append(closedLog, currTrial) ELSE closedLog
    /\ nFrames' = nFrames + 1
    /\ clock' = clock + RLPFrameTicks * Tick
    /\ \/ /\ rest' \in RLPRegular(clock)
          /\ nAnom' = nAnom
       \/ /\ nAnom < MaxAnomalies
          /\ rest' \in RLPIrregular(clock)
          /\ nAnom' = nAnom + 1
    /\ UNCHANGED <<batchVars, task, allTrials, locals, eventInfo, lastLine>>

\* a line that matches a string or numeric rule only
evalRLP_Line ==
    /\ task = "RLP" /\ pc = "reading" /\ rest # << >>
    /\ Head(rest).k \notin {"Running", "break_on", "ready_on"}
    /\ currTrial' = ExtractRLP(currTrial, Head(rest))
    /\ lastLine' = Head(rest)
    /\ locals' = [locals EXCEPT
                    !["absoluteStart"] = StartAfter(@, Head(rest), trialCounter)]
    /\ rest' = Tail(rest)
    /\ UNCHANGED <<batchVars, task, pc, dfEvent, trialCounter, allTrials, clock, nFrames,
                   nAnom, hist, closedLog, flatLog, eventInfo>>

\* 'Running: Block<b>List<ratio>': block number and reinforcement ratio
evalRLP_Running ==
    /\ task = "RLP" /\ pc = "reading" /\ rest # << >>
    /\ Head(rest).k = "Running"
    /\ lastLine' = Head(rest)
    /\ currTrial' = Put(Put(currTrial, "block_num", Int2Num(Head(rest).tok[1])),
                        "reinforcement_ratio", Int2Num(Head(rest).tok[2]))
    /\ rest' = Tail(rest)
    /\ UNCHANGED <<batchVars, task, pc, dfEvent, trialCounter, allTrials, clock, nFrames,
                   nAnom, hist, closedLog, flatLog, locals, eventInfo>>

\* 'BreakText<n>.OnsetTime' and 'ScannerWaitPreBlock<n>.OnsetTime': the
\* numeric rule stores the value in the open record, the open record is
\* flattened, and a break / getReady record is opened; int(l_split[1])
\* raises when the value is omitted
evalRLP_BreakOrReady ==
    /\ task = "RLP" /\ pc = "reading" /\ rest # << >>
    /\ Head(rest).k \in {"break_on", "ready_on"}
    /\ LET line == Head(rest)
           stored == ExtractRLP(currTrial, line)
           r == eventRLP(stored, dfEvent, locals["absoluteStart"])
           tc1 == trialCounter + 1
           kept == [k \in Keys(stored) \cap {"trial_num", "block_num"} |->
                        IF k = "trial_num" THEN Int2Num(tc1) ELSE stored[k]]
           ok == r.ok /\ Len(line.tok) = 1
       IN  /\ flatLog' = Append(flatLog, [rec |-> stored, to |-> "event", by |-> "break"])
           /\ hist' = [op |-> IF ok THEN r.shape ELSE IF r.ok THEN "lineRaise" ELSE "raise",
                       rec |-> stored, before |-> dfEvent]
           /\ pc' = IF ok THEN "reading" ELSE "raised"
           /\ dfEvent' = r.df
           /\ trialCounter' = IF r.ok THEN tc1 ELSE trialCounter
           /\ currTrial' =
                IF ok
                THEN Put(Put(kept, "onset", Int2Num(line.tok[1])), "stimulus_type",
                         IF line.k = "break_on" THEN "break" ELSE "getReady")
                ELSE stored
    /\ rest' = Tail(rest)
    /\ lastLine' = Head(rest)
    /\ UNCHANGED <<batchVars, task, allTrials, clock, nFrames, nAnom, closedLog, locals, eventInfo>>

\* end of file: durations, replace, return; np.isnan raises on the object
\* column of an empty table
evalRLP_EndOfFile ==
    /\ task = "RLP" /\ pc = "reading" /\ rest = << >>
    /\ IF Len(dfEvent) = 0
       THEN /\ pc' = "raised"
            /\ hist' = [op |-> "raise", rec |-> currTrial, before |-> dfEvent]
            /\ UNCHANGED dfEvent
       ELSE /\ pc' = "eof"
            /\ dfEvent' = ReplaceNanAll(RLPDurations(dfEvent))
            /\ hist' = [op |-> "durations", rec |-> currTrial, before |-> dfEvent]
    /\ UNCHANGED <<batchVars, task, currTrial, trialCounter, allTrials, rest, clock, nFrames,
                   nAnom, closedLog, flatLog, locals, eventInfo, lastLine>>

\* ------------------------------------------------------------ evalBreath
\* np.round(x, 3)
Round3(x) ==
    IF IsNumber(x)
    THEN Rat((2 * x[1] * MsPerSecond + x[2]) \div (2 * x[2]), MsPerSecond)
    ELSE x

BreathKinds == {"stim_onset", "stim_offset", "keypress_rt", "keypress_resp"}

\* One pass of the loop body of evalBreath for a line of kind k with the
\* value tokens tok: [ok, locals, info].  int(l_split[1]) raises when the
\* value is omitted, startTime raises NameError before the stimulus onset.
BreathLine(loc, info, k, tok) ==
    IF Len(tok) # 1 THEN [ok |-> FALSE, locals |-> loc, info |-> info]
    ELSE CASE k = "stim_onset" ->
                [ok |-> TRUE, locals |-> Put(loc, "startTime", Int2Num(tok[1])),
                 info |-> [onset |-> Append(info.onset, Int2Num(0)),
                           event_num |-> Append(info.event_num, Int2Num(0)),
                           response |-> Append(info.response, NaStr)]]
           [] k = "stim_offset" ->
                [ok |-> TRUE, locals |-> Put(loc, "endTime", Int2Num(tok[1])), info |-> info]
           [] k = "keypress_rt" ->
                IF "startTime" \in Keys(loc)
                THEN [ok |-> TRUE, locals |-> loc,
                      info |-> [info EXCEPT
                        !.onset = Append(@, NumDiv(NumSub(Int2Num(tok[1]), loc["startTime"]),
                                                   MsPerSecond)),
                        !.event_num = Append(@, Int2Num(Len(info.event_num)))]]
                ELSE [ok |-> FALSE, locals |-> loc, info |-> info]
           [] OTHER ->
                [ok |-> TRUE, locals |-> loc,
                 info |-> [info EXCEPT !.response = Append(@, Int2Num(tok[1]))]]

\* "calculate durations" and the frame built from eventInfo
BreathRows(loc, info) ==
    LET n == Len(info.onset)
        total == NumDiv(NumSub(loc["endTime"], loc["startTime"]), MsPerSecond)
    IN  [i \in 1..n |->
            Row(NullStr, Nan, info.event_num[i], NullStr, info.onset[i],
                IF i < n THEN Round3(NumSub(info.onset[i + 1], info.onset[i]))
                ELSE Round3(NumSub(total, info.onset[n])),
                Nan, info.response[i])]

\* a line of the breathing log: the keyboard stimulus onset or offset, the
\* time of a key press (KeyPress<n>RT) or its response code
evalBreath_Line ==
    /\ task = "breath" /\ pc = "reading"
    /\ nFrames < MaxFrames + 1
    /\ \E k \in BreathKinds, omitted \in BOOLEAN :
          /\ omitted => nAnom < MaxAnomalies
          /\ nAnom' = IF omitted THEN nAnom + 1 ELSE nAnom
          /\ LET tok == IF omitted THEN << >>
                        ELSE IF k = "keypress_resp" THEN << 1 >> ELSE << clock >>
                 r == BreathLine(locals, eventInfo, k, tok)
             IN  /\ lastLine' = [k |-> k, tok |-> tok, s |-> ""]
                 /\ locals' = r.locals
                 /\ eventInfo' = r.info
                 /\ pc' = IF r.ok THEN "reading" ELSE "raised"
                 /\ hist' = IF r.ok THEN hist
                            ELSE [op |-> "lineRaise", rec |-> currTrial, before |-> dfEvent]
    /\ nFrames' = nFrames + 1
    /\ clock' = clock + Tick
    /\ UNCHANGED <<batchVars, task, currTrial, dfEvent, trialCounter, allTrials, rest,
                   closedLog, flatLog>>

\* end of file: the durations need startTime, endTime and a first onset;
\* DataFrame.from_dict raises when the lists differ in length
evalBreath_EndOfFile ==
    /\ task = "breath" /\ pc = "reading"
    /\ LET ok == /\ {"startTime", "endTime"} \subseteq Keys(locals)
                 /\ Len(eventInfo.onset) > 0
                 /\ Len(eventInfo.response) = Len(eventInfo.onset)
       IN  /\ pc' = IF ok THEN "eof" ELSE "raised"
           /\ dfEvent' = IF ok THEN BreathRows(locals, eventInfo) ELSE dfEvent
           /\ hist' = [op |-> IF ok THEN "durations" ELSE "raise",
                       rec |-> currTrial, before |-> dfEvent]
    /\ UNCHANGED <<batchVars, task, currTrial, trialCounter, allTrials, rest, clock, nFrames,
                   nAnom, closedLog, flatLog, locals, eventInfo, lastLine>>

Tasks == {"Faces", "Reward", "RLP", "breath"}

Init ==
    /\ task \in Tasks
    /\ pc = "reading"
    /\ currTrial = "trial_num" :> Int2Num(0)
    /\ dfEvent = << >>
    /\ trialCounter = 0
    /\ allTrials = << >>
    /\ rest = Header(task)
    /\ clock = StartClock
    /\ nFrames = 0
    /\ nAnom = 0
    /\ hist = NoHist
    /\ lastLine = NoLine
    /\ locals = IF task = "RLP" THEN "absoluteStart" :> Nan ELSE << >>
    /\ eventInfo = [onset |-> << >>, event_num |-> << >>, response |-> << >>]
    /\ closedLog = << >>
    /\ flatLog = << >>
    /\ self = NewResponse
    /\ fileNames = << >>
    /\ respData = NoData
    /\ written = << >>

Next ==
    \/ evalFaces_LogFrameStart
    \/ evalFaces_Line
    \/ evalFaces_Terminal
    \/ evalFaces_EndOfFile
    \/ evalReward_LogFrameStart
    \/ evalReward_Line
    \/ evalReward_Terminal
    \/ evalReward_EndOfFile
    \/ evalRLP_TrialStart
    \/ evalRLP_Line
    \/ evalRLP_Running
    \/ evalRLP_BreakOrReady
    \/ evalRLP_EndOfFile
    \/ evalBreath_Line
    \/ evalBreath_EndOfFile

Spec == Init /\ [][Next]_vars

\* ------------------------------------------- the normalization step alone
\* The end-of-paradigm branch of eventFaces / eventReward applied to a
\* table of raw onsets, once and then once more to its own result.
RawOnsets == {Int2Num(5000), Int2Num(5500), Int2Num(6000), Int2Num(8000), Nan}

RawRow(on) == Row("Fear", Int2Num(1), Int2Num(1), "stimulus", on, NaStr, NaStr, NaStr)

LastDuration(t) == IF t = "Faces" THEN FacesLastDuration ELSE RewardLastDuration

InitNorm ==
    /\ task \in {"Faces", "Reward"}
    /\ pc = "raw"
    /\ \E n \in 1..MaxRows :
          dfEvent \in {[i \in 1..n |-> RawRow(ons[i])] : ons \in [1..n -> RawOnsets]}
    /\ currTrial = "trial_num" :> Int2Num(0)
    /\ trialCounter = 0
    /\ allTrials = << >>
    /\ rest = << >>
    /\ clock = StartClock
    /\ nFrames = 0
    /\ nAnom = 0
    /\ hist = NoHist
    /\ lastLine = NoLine
    /\ locals = << >>
    /\ eventInfo = [onset |-> << >>, event_num |-> << >>, response |-> << >>]
    /\ closedLog = << >>
    /\ flatLog = << >>
    /\ self = NewResponse
    /\ fileNames = << >>
    /\ respData = NoData
    /\ written = << >>

\* eventFaces({}, dfEvent, ...) / eventReward({}, dfEvent, ...)
NormalizeOnce ==
    /\ pc = "raw"
    /\ \E r \in NormalizeOutcomes(dfEvent, LastDuration(task)) :
          /\ pc' = IF r.ok THEN "once" ELSE "raised"
          /\ dfEvent' = r.df
          /\ hist' = [op |-> IF r.ok THEN "normalize" ELSE "raise",
                      rec |-> << >>, before |-> dfEvent]
    /\ UNCHANGED <<batchVars, task, currTrial, trialCounter, allTrials, rest, clock, nFrames,
                   nAnom, closedLog, flatLog, locals, eventInfo, lastLine>>

\* the same call on the table it returned
NormalizeAgain ==
    /\ pc = "once"
    /\ \E r \in NormalizeOutcomes(dfEvent, LastDuration(task)) :
          /\ pc' = IF r.ok THEN "twice" ELSE "raised"
          /\ dfEvent' = r.df
          /\ hist' = [op |-> IF r.ok THEN "normalize" ELSE "raise",
                      rec |-> << >>, before |-> dfEvent]
    /\ UNCHANGED <<batchVars, task, currTrial, trialCounter, allTrials, rest, clock, nFrames,
                   nAnom, closedLog, flatLog, locals, eventInfo, lastLine>>

NextNorm == NormalizeOnce \/ NormalizeAgain

SpecNorm == InitNorm /\ [][NextNorm]_vars

\* ======================================================= evalLossAversion
\* values of keepString / keepNumeric of evalLossAversion
LossAversionString == {"block_name", "target_person"}
LossAversionNumeric ==
    {"iti", "win_amount", "loss_amount", "gamble_on", "fix_on", "gamble_rt", "fix_rt",
     "gamble_resp", "fix_resp", "trial_num_current", "level"}

\* one pass of the strCheck / numCheck part of the loop body
ExtractLossAversion(trial, line) ==
    IF line.k \in LossAversionString THEN Put(trial, line.k, line.s)
    ELSE IF line.k \in LossAversionNumeric
         THEN Put(trial, line.k, IF Len(line.tok) = 1 THEN Int2Num(line.tok[1]) ELSE Nan)
         ELSE trial

\* one row of the Loss Aversion table
LARow(on, dur, run, tnum, stype, gside, wside, rtime, resp, iti) ==
    [onset |-> on, duration |-> dur, run_num |-> run, trial_num |-> tnum,
     stimulus_type |-> stype, gamble_side |-> gside, win_side |-> wside,
     response_time |-> rtime, response |-> resp, iti |-> iti]

\* the keys eventLossAversion reads when it flattens a trial
LossAversionKeys ==
    {"block_name", "gamble_resp", "fix_resp", "gamble_rt", "fix_rt", "gamble_on", "fix_on",
     "trial_num_current", "target_person", "win_amount", "loss_amount", "iti"}

\* "if x is None: x = 'n/a'" and "if x is 0: x = 'n/a'"
NoneToNa(x) == IF x = Nan THEN NaStr ELSE x
ZeroToNa(x) == IF x = Int2Num(0) THEN NaStr ELSE x

\* the side letters read from the procedure name GambleG<g>W<w>
GambleSide(bname) == IF bname \in {"GambleGLWL", "GambleGLWR"} THEN "L" ELSE "R"
WinSide(bname) == IF bname \in {"GambleGLWL", "GambleGRWL"} THEN "L" ELSE "R"

\* the two rows (gamble, fixation) of a trial
LossAversionRows(trial) ==
    << LARow(trial["gamble_on"], NaStr, NaStr, trial["trial_num_current"], "gamble",
             GambleSide(trial["block_name"]), WinSide(trial["block_name"]),
             ZeroToNa(trial["gamble_rt"]), NoneToNa(trial["gamble_resp"]), NaStr),
       LARow(trial["fix_on"], NaStr, NaStr, trial["trial_num_current"], "fixation",
             "n/a", "n/a",
             ZeroToNa(trial["fix_rt"]), NoneToNa(trial["fix_resp"]), trial["iti"]) >>

\* [i/1000 if isinstance(i,int) else 'n/a' for i in column]
IntToSeconds(x) == IF IsNumber(x) /\ x[2] = 1 THEN NumDiv(x, MsPerSecond) ELSE NaStr

\* np.append(np.delete(np.array(onset.diff()), 0), iti.iloc[-1] / 1000)
RunDurations(df) ==
    [i \in 1..Len(df) |->
        [df[i] EXCEPT !.duration =
            IF i < Len(df) THEN NumSub(df[i + 1].onset, df[i].onset)
            ELSE NumDiv(df[Len(df)].iti, MsPerSecond)]]

\* lines 344-347 and 350: run number, onsets, response times and ITIs in seconds,
\* durations, NaN replaced by 'n/a'
RunScaled(df, run) ==
    [i \in 1..Len(df) |->
        [AnchorOnsets(df)[i] EXCEPT !.run_num = Int2Num(run),
                                    !.response_time = IntToSeconds(df[i].response_time),
                                    !.iti = IntToSeconds(df[i].iti)]]
NormalizeRun(df, run) ==
    LET d == RunDurations(RunScaled(df, run))
    IN  [i \in 1..Len(d) |->
            [d[i] EXCEPT !.onset = ReplaceNan(d[i].onset),
                         !.duration = ReplaceNan(d[i].duration)]]

\* 'run-' + str(runCounter)
RunSuffix(run) == "run-" \o ToString(run)

\* The file writeRespCsv writes for an event table: its name is made of
\* the task's output name and the suffix, its content is the table.
EventFile(taskType, suffix, df) == [task |-> taskType, suffix |-> suffix, event |-> df]

\* eventLossAversion: [ok, df, tc, shape, suffix, write]; suffix is the
\* value assigned to self.outFileSuffix ("None": not assigned), write the
\* files written by the call.  The run branch raises on an empty table
\* (iloc[0]), on a last ITI that is not a number ('n/a' / 1000), and on a
\* record without 'level' (currTrial['level']); the suffix is assigned
\* before the last of these.
eventLossAversion(trial, df, tc, run) ==
    IF Keys(trial) \subseteq {"trial_num", "level"}
    THEN IF Len(df) = 0 \/ ~IsNumber(IntToSeconds(df[Len(df)].iti))
         THEN [ok |-> FALSE, df |-> df, tc |-> tc, shape |-> "normalize", suffix |-> "None",
               write |-> << >>]
         ELSE IF "level" \notin Keys(trial)
         THEN [ok |-> FALSE, df |-> df, tc |-> tc, shape |-> "normalize",
               suffix |-> RunSuffix(run), write |-> << >>]
         ELSE [ok |-> TRUE, df |-> NormalizeRun(df, run), tc |-> 0, shape |-> "normalize",
               suffix |-> RunSuffix(run),
               write |-> IF trial["level"] # Int2Num(1)
                         THEN << EventFile("LA_fMRI", RunSuffix(run), NormalizeRun(df, run)) >>
                         ELSE << >>]
    ELSE IF ~HasAll(trial, LossAversionKeys)
         THEN [ok |-> FALSE, df |-> df, tc |-> tc, shape |-> "other", suffix |-> "None",
               write |-> << >>]
         ELSE [ok |-> TRUE, df |-> df \o LossAversionRows(trial), tc |-> tc,
               shape |-> "standard", suffix |-> "None", write |-> << >>]

\* ------------------------------------------------------ evalLossAversion
\* The frames of a Loss Aversion log.  A trial frame logs the procedure,
\* the target person, the sample number, the amounts, the onsets, RTs and
\* responses of the gamble and of the fixation, and the ITI; the frame
\* that ends a run holds the line 'Level: 2' only.
LossAversionTrialFrame(t, v) ==
    << StrLine("block_name", "GambleGLWR"), StrLine("target_person", "Dig selv"),
       NumLine("trial_num_current", 1), NumLine("win_amount", 20), NumLine("loss_amount", 10) >>
    \o << IF v = "onsetOmitted" THEN OmitLine("gamble_on") ELSE NumLine("gamble_on", t) >>
    \o (IF v = "noResponse" THEN << NumLine("gamble_rt", 0), OmitLine("gamble_resp") >>
        ELSE << NumLine("gamble_rt", 700), NumLine("gamble_resp", 1) >>)
    \o (IF v = "fixMissing" THEN << >> ELSE << NumLine("fix_on", t + Tick) >>)
    \o << NumLine("fix_rt", 0), OmitLine("fix_resp") >>
    \o << IF v = "itiOmitted" THEN OmitLine("iti") ELSE NumLine("iti", 2 * Tick) >>
    \o (IF v = "lastOfRun" THEN << NumLine("level", 2) >> ELSE << >>)

LossAversionRunEnd == << NumLine("level", 2) >>

LossAversionRegular(t) == {LossAversionTrialFrame(t, "ok"), LossAversionRunEnd}
LossAversionIrregular(t) ==
    {LossAversionTrialFrame(t, v) :
        v \in {"noResponse", "onsetOmitted", "fixMissing", "itiOmitted", "lastOfRun"}}
    \cup {<< >>}

\* the assignment to self.outFileSuffix made by a call of eventLossAversion
WithSuffix(inst, suffix) ==
    IF suffix = "None" THEN inst ELSE [inst EXCEPT !.outFileSuffix = suffix]

\* '*** LogFrame Start ***': skipped during practice; otherwise the open
\* record goes to eventLossAversion, and a run that was closed
\* (trialCounter is 0) empties the table and switches practice on
evalLossAversion_LogFrameStart ==
    /\ task = "LA_fMRI" /\ pc = "reading" /\ rest = << >>
    /\ nFrames <= MaxFrames
    /\ LET tc1 == trialCounter + 1
           r == eventLossAversion(currTrial, dfEvent, tc1, locals.runCounter)
       IN  IF locals.practice
           THEN /\ hist' = NoHist
                /\ UNCHANGED <<dfEvent, trialCounter, currTrial, pc, flatLog, locals, self,
                               written>>
           ELSE /\ flatLog' = Append(flatLog, [rec |-> currTrial, to |-> "event", by |-> "start"])
                /\ hist' = [op |-> IF r.ok THEN r.shape ELSE "raise",
                            rec |-> currTrial, before |-> dfEvent]
                /\ self' = WithSuffix(self, r.suffix)
                /\ written' = written \o r.write
                /\ IF r.ok
                   THEN /\ dfEvent' = IF r.tc = 0 THEN << >> ELSE r.df
                        /\ locals' = [locals EXCEPT !.practice = (r.tc = 0)]
                        /\ trialCounter' = r.tc
                        /\ currTrial' = "trial_num" :> Int2Num(r.tc)
                        /\ pc' = "reading"
                   ELSE /\ pc' = "raised"
                        /\ UNCHANGED <<dfEvent, trialCounter, currTrial, locals>>
    /\ closedLog' = IF locals.practice THEN closedLog ELSE Append(closedLog, currTrial)
    /\ nFrames' = nFrames + 1
    /\ clock' = clock + FrameTicks * Tick
    /\ NextFrame(LossAversionRegular(clock), LossAversionIrregular(clock))
    /\ UNCHANGED <<task, allTrials, eventInfo, lastLine, fileNames, respData>>

\* 'Procedure: GambleG.W.' during practice: the first trial of a run
evalLossAversion_NewRun ==
    /\ task = "LA_fMRI" /\ pc = "reading" /\ rest # << >>
    /\ locals.practice /\ Head(rest).k = "block_name"
    /\ trialCounter' = trialCounter + 1
    /\ locals' = [runCounter |-> locals.runCounter + 1, practice |-> FALSE, bound |-> TRUE]
    /\ currTrial' = ExtractLossAversion("trial_num" :> Int2Num(trialCounter + 1), Head(rest))
    /\ lastLine' = Head(rest)
    /\ rest' = Tail(rest)
    /\ UNCHANGED <<batchVars, task, pc, dfEvent, allTrials, clock, nFrames, nAnom, hist,
                   closedLog, flatLog, eventInfo>>

\* any other line: skipped during practice, else the strCheck / numCheck part
evalLossAversion_Line ==
    /\ task = "LA_fMRI" /\ pc = "reading" /\ rest # << >>
    /\ ~(locals.practice /\ Head(rest).k = "block_name")
    /\ currTrial' = IF locals.practice THEN currTrial
                    ELSE ExtractLossAversion(currTrial, Head(rest))
    /\ lastLine' = Head(rest)
    /\ rest' = Tail(rest)
    /\ UNCHANGED <<batchVars, task, pc, dfEvent, trialCounter, allTrials, clock, nFrames,
                   nAnom, hist, closedLog, flatLog, locals, eventInfo>>

\* 'Level: 1': currTrial['level'] = 1 (NameError when no run has started),
\* eventLossAversion, replace, return
evalLossAversion_Terminal ==
    /\ task = "LA_fMRI" /\ pc = "reading" /\ rest = << >>
    /\ LET trial == Put(currTrial, "level", Int2Num(1))
           r == eventLossAversion(trial, dfEvent, trialCounter, locals.runCounter)
           ok == locals.bound /\ r.ok
       IN  /\ pc' = IF ok THEN "terminal" ELSE "raised"
           /\ hist' = [op |-> IF ok THEN r.shape ELSE "raise", rec |-> trial,
                       before |-> dfEvent]
           /\ flatLog' = IF locals.bound
                         THEN Append(flatLog, [rec |-> trial, to |-> "event", by |-> "terminal"])
                         ELSE flatLog
           /\ self' = IF locals.bound THEN WithSuffix(self, r.suffix) ELSE self
           /\ dfEvent' = IF ok THEN r.df ELSE dfEvent
           /\ trialCounter' = IF ok THEN r.tc ELSE trialCounter
           /\ currTrial' = IF locals.bound THEN trial ELSE currTrial
           /\ respData' = IF ok THEN DataOf(r.df) ELSE respData
    /\ UNCHANGED <<task, allTrials, rest, clock, nFrames, nAnom, closedLog, locals,
                   eventInfo, lastLine, fileNames, written>>

\* the file ends without 'Level: 1': dfEvent is returned as it is
evalLossAversion_EndOfFile ==
    /\ task = "LA_fMRI" /\ pc = "reading" /\ rest = << >>
    /\ pc' = "eof"
    /\ respData' = DataOf(dfEvent)
    /\ UNCHANGED <<task, currTrial, dfEvent, trialCounter, allTrials, rest, clock, nFrames,
                   nAnom, hist, locals, eventInfo, lastLine, closedLog, flatLog, self,
                   fileNames, written>>

\* writeRespCsv: the files it writes for what an evaluator returned; the
\* event file carries the suffix the instance holds at that moment
WriteRespCsv(taskType, inst, respOutput) ==
    IF respOutput.hasEvent
    THEN << EventFile(taskType, inst.outFileSuffix, respOutput.event) >>
    ELSE << >>

\* __main__: a.writeRespCsv(respData) after the evaluator has returned
LossAversion_writeRespCsv ==
    /\ task = "LA_fMRI" /\ pc \in {"terminal", "eof"}
    /\ pc' = "written"
    /\ written' = written \o WriteRespCsv(task, self, respData)
    /\ UNCHANGED <<task, currTrial, dfEvent, trialCounter, allTrials, rest, clock, nFrames,
                   nAnom, hist, locals, eventInfo, lastLine, closedLog, flatLog, self,
                   fileNames, respData>>

InitLA ==
    /\ task = "LA_fMRI"
    /\ pc = "reading"
    /\ currTrial = << >>
    /\ dfEvent = << >>
    /\ trialCounter = 0
    /\ allTrials = << >>
    /\ rest = << >>
    /\ clock = StartClock
    /\ nFrames = 0
    /\ nAnom = 0
    /\ hist = NoHist
    /\ lastLine = NoLine
    /\ locals = [runCounter |-> 0, practice |-> TRUE, bound |-> FALSE]
    /\ eventInfo = [onset |-> << >>, event_num |-> << >>, response |-> << >>]
    /\ closedLog = << >>
    /\ flatLog = << >>
    /\ self = NewResponse
    /\ fileNames = << >>
    /\ respData = NoData
    /\ written = << >>

NextLA ==
    \/ evalLossAversion_LogFrameStart
    \/ evalLossAversion_NewRun
    \/ evalLossAversion_Line
    \/ evalLossAversion_Terminal
    \/ evalLossAversion_EndOfFile
    \/ LossAversion_writeRespCsv

SpecLA == InitLA /\ [][NextLA]_vars

\* ================================================================ __main__
\* keys of taskDict
TaskDictKeys ==
    {"VAS", "Reward", "Faces", "RLP", "PSAP", "aarhus_music", "breath", "LA_fMRI"}

\* files of one batch, at most
MaxFiles == 3

\* A file on disk, by what the program reads from it:
\*   utf16, plain  it decodes as UTF-16 / in the default encoding (UTF-8)
\*   first         its first line: "header" ('*** Header Start ***'),
\*                 "signature" (Time ... Event ... Number) or "other"
\*   experiment    the taskDict key its 'Experiment: ' line contains, "" when
\*                 the line names no task, "none" when it has no such line
\*   log           the task whose log it is
\*   ok, event     whether that task's evaluator returns, and the table it returns
\*   runs          Loss Aversion: the runs closed by a 'Level: 2' record
File(name, utf16, plain, first, experiment, log, ok, event, runs) ==
    [name |-> name, utf16 |-> utf16, plain |-> plain, first |-> first,
     experiment |-> experiment, log |-> log, ok |-> ok, event |-> event, runs |-> runs]

\* one row of the alcohol table (the columns the export reads)
AlcRow(type, subtype, fileName, on, dur) ==
    [type |-> type, subtype |-> subtype, fileName |-> fileName,
     onsetFromStart |-> on, duration |-> dur]

\* E-Prime logs (UTF-16 with a header) as a subject folder holds them: two
\* alcohol logs, a Faces log, one whose evaluator raises, two Loss Aversion
\* logs (one run closed and a second one ended by 'Level: 1'; one run closed
\* and 'Level: 1' right after it), and a Faces log without an 'Experiment: ' line
LogFiles ==
    { File("vas1", TRUE, FALSE, "header", "VAS", "VAS", TRUE,
           << AlcRow("neutral", "neutral", "n1.bmp", Int2Num(0), Int2Num(2)),
              AlcRow("rating", "rating", "neutral", Int2Num(2), Int2Num(3)) >>, 0),
      File("vas2", TRUE, FALSE, "header", "VAS", "VAS", TRUE,
           << AlcRow("alcohol", "wine", "w1.bmp", Int2Num(0), Int2Num(2)),
              AlcRow("rating", "rating", "wine", Int2Num(2), Int2Num(3)),
              AlcRow("alcohol", "wine", "w2.bmp", Int2Num(5), Nan) >>, 0),
      File("faces", TRUE, FALSE, "header", "Faces", "Faces", TRUE, << "faces" >>, 0),
      File("facesBad", TRUE, FALSE, "header", "Faces", "Faces", FALSE, << >>, 0),
      File("la", TRUE, FALSE, "header", "LA_fMRI", "LA_fMRI", TRUE, << "la" >>, 1),
      File("laEnd", TRUE, FALSE, "header", "LA_fMRI", "LA_fMRI", FALSE, << >>, 1),
      File("noExperiment", TRUE, FALSE, "header", "none", "Faces", TRUE, << "noExperiment" >>, 0) }

\* other .txt files: a PSAP export (plain text), one saved as UTF-16, a log
\* of an unsupported experiment, a list of inputs as plain text and as
\* UTF-16, an empty file, and one that decodes in neither encoding
OtherFiles ==
    { File("psap", FALSE, TRUE, "signature", "none", "PSAP", TRUE, << "psap" >>, 0),
      File("psap16", TRUE, FALSE, "signature", "none", "PSAP", TRUE, << "psap16" >>, 0),
      File("unsupported", TRUE, FALSE, "header", "", "", TRUE, << >>, 0),
      File("list", FALSE, TRUE, "other", "none", "", TRUE, << >>, 0),
      File("list16", TRUE, FALSE, "other", "none", "", TRUE, << >>, 0),
      File("empty", TRUE, TRUE, "other", "none", "", TRUE, << >>, 0),
      File("binary", FALSE, FALSE, "other", "none", "", TRUE, << >>, 0) }

NoFile == File("", FALSE, FALSE, "other", "none", "", FALSE, << >>, 0)

\* input1: a .txt path (pvmn: the string starts with p, v, m or n, which
\* only a relative name can), a scanner name or a subject ID with the
\* files found in the folders, or any other string
Input(kind, exists, pvmn, file, files) ==
    [kind |-> kind, exists |-> exists, pvmn |-> pvmn, file |-> file, files |-> files]

Inputs ==
    {Input("txt", TRUE, p, f, << >>) : p \in BOOLEAN, f \in LogFiles \cup OtherFiles}
    \cup {Input("txt", FALSE, FALSE, NoFile, << >>), Input("other", FALSE, FALSE, NoFile, << >>)}
    \cup {Input(k, FALSE, k = "subjID", NoFile, fs) :
            k \in {"scanner", "subjID"},
            fs \in UNION {[1..n -> LogFiles] : n \in 0..MaxFiles}}

\* mapInput: the name of the processing method, "None" when no return
\* statement is reached, "ValueError" when the path does not exist
mapInput(input1) ==
    LET f == input1.file
        fallThrough == IF input1.kind = "scanner" THEN "processScanner"
                       ELSE IF input1.pvmn THEN "processSubjID"
                       ELSE "None"
    IN  IF input1.kind # "txt" THEN fallThrough
        ELSE IF ~input1.exists THEN "ValueError"
        ELSE IF f.utf16
             THEN IF f.first = "header" THEN "processSingleFile" ELSE "processListFile"
             ELSE IF f.plain
                  THEN IF f.first = "signature" THEN "processSingleFile" ELSE fallThrough
                  ELSE "processListFile"

\* a.inputDict[inputInfo[0]](inputInfo[1]): [ok, files].  Indexing None
\* raises TypeError.  processListFile opens the list in the default
\* encoding; a file that mapInput sends there decodes as UTF-16 or not at
\* all, so that only an empty one is read without UnicodeDecodeError.
\* processSubjID raises ValueError when no folder starts with the string,
\* as for a .txt name.
inputDict(inputInfo, input1) ==
    CASE inputInfo = "processSingleFile" -> [ok |-> TRUE, files |-> << input1.file >>]
      [] inputInfo = "processListFile" ->
            [ok |-> input1.file.plain, files |-> << >>]
      [] inputInfo = "processScanner" -> [ok |-> TRUE, files |-> input1.files]
      [] inputInfo = "processSubjID" ->
            [ok |-> input1.kind = "subjID", files |-> input1.files]
      [] OTHER -> [ok |-> FALSE, files |-> << >>]

\* taskIdentify: the value of self.currTaskType after the file was read.
\* An 'Experiment: ' line of a UTF-16 file sets it to the joined keys the
\* line contains; a plain-text file with the PSAP signature sets 'PSAP';
\* otherwise it keeps the value it had.
taskIdentify(f, curr) ==
    IF f.utf16 THEN (IF f.experiment = "none" THEN curr ELSE f.experiment)
    ELSE IF f.plain /\ f.first = "signature" THEN "PSAP"
    ELSE curr

\* df.loc[df[key] == t, col] as a list
Loc(df, key, t, col) ==
    LET sel == SelectSeq(df, LAMBDA r : r[key] = t)
    IN  [i \in 1..Len(sel) |-> sel[i][col]]

\* rowSummary[:4]
RowSummary == << "neutral", "wine", "schnapps", "beer" >>

\* a variant of SpmOf that selects the durations by subtype throughout
SpmOf_DurationsBySubtype(df) ==
    [names |-> [j \in 1..2 * Len(RowSummary) |->
                    IF j % 2 = 1 THEN RowSummary[(j + 1) \div 2]
                    ELSE RowSummary[j \div 2] \o "Rating"],
     onsets |-> [j \in 1..2 * Len(RowSummary) |->
                    IF j % 2 = 1
                    THEN Loc(df, "subtype", RowSummary[(j + 1) \div 2], "onsetFromStart")
                    ELSE Loc(df, "fileName", RowSummary[j \div 2], "onsetFromStart")],
     durations |-> [j \in 1..2 * Len(RowSummary) |->
                    Loc(df, "subtype", RowSummary[(j + 1) \div 2], "duration")]]

\* the loop "for t in rowSummary[:4]" of evalAlcohol: what one file
\* appends to self.spmStruct, the condition t selected by subtype and the
\* condition t + 'Rating' selected by fileName
SpmOf(df) ==
    [names |-> [j \in 1..2 * Len(RowSummary) |->
                    IF j % 2 = 1 THEN RowSummary[(j + 1) \div 2]
                    ELSE RowSummary[j \div 2] \o "Rating"],
     onsets |-> [j \in 1..2 * Len(RowSummary) |->
                    IF j % 2 = 1
                    THEN Loc(df, "subtype", RowSummary[(j + 1) \div 2], "onsetFromStart")
                    ELSE Loc(df, "fileName", RowSummary[j \div 2], "onsetFromStart")],
     durations |-> [j \in 1..2 * Len(RowSummary) |->
                    IF j % 2 = 1
                    THEN Loc(df, "subtype", RowSummary[(j + 1) \div 2], "duration")
                    ELSE Loc(df, "fileName", RowSummary[j \div 2], "duration")]]

\* self.spmStruct[...].append(...)
SpmAppend(spm, new) ==
    [names |-> spm.names \o new.names, onsets |-> spm.onsets \o new.onsets,
     durations |-> spm.durations \o new.durations]

\* taskType(f) for the evaluator selected by taskDict[t]: the set of
\* outcomes [ok, data, inst, write] (inst: the instance afterwards; write:
\* the files written during the call).  evalPSAP opens the file in the
\* default encoding, the others as UTF-16.  An evaluator that reads the
\* log of another task finds none of its lines: it returns an empty table,
\* or raises on a line it takes for its own.
\*   evalAlcohol        returns the table and appends to self.spmStruct
\*   evalLossAversion   writes every closed run, sets self.outFileSuffix
\*                      and raises when 'Level: 1' follows a closed run
\*   evalFaces, evalPSAP return the table or raise
Evaluate(t, f, inst) ==
    LET fails == [ok |-> FALSE, data |-> NoData, inst |-> inst, write |-> << >>]
        df == IF f.log = t THEN f.event ELSE << >>
        closed == [k \in 1..f.runs |-> EventFile("LA_fMRI", RunSuffix(k), << f.name, k >>)]
    IN  IF (t = "PSAP" /\ ~f.plain) \/ (t # "PSAP" /\ ~f.utf16) THEN {fails}
        ELSE IF t = "VAS"
        THEN {[ok |-> TRUE, data |-> DataOf(df),
               inst |-> [inst EXCEPT !.spmStruct = SpmAppend(@, SpmOf(df))],
               write |-> << >>]}
        ELSE IF f.log # t
        THEN {fails, [ok |-> TRUE, data |-> DataOf(<< >>), inst |-> inst, write |-> << >>]}
        ELSE IF t = "LA_fMRI"
        THEN {[ok |-> f.ok, data |-> IF f.ok THEN DataOf(df) ELSE NoData,
               inst |-> WithSuffix(inst, RunSuffix(IF f.ok THEN f.runs + 1 ELSE f.runs)),
               write |-> closed]}
        ELSE {[ok |-> f.ok, data |-> IF f.ok THEN DataOf(df) ELSE NoData, inst |-> inst,
               write |-> << >>]}

\* writeRespMat: the .mat file of the alcohol task holds the lists of
\* self.spmStruct as they are when it is called
WriteRespMat(taskType, inst) ==
    IF taskType = "VAS"
    THEN << [task |-> taskType, suffix |-> "RespSPM.mat", event |-> inst.spmStruct] >>
    ELSE << >>

\* a = Response(); inputInfo = a.mapInput(a.input1);
\* fileNames = a.inputDict[inputInfo[0]](inputInfo[1])
main_mapInput ==
    /\ task = "" /\ pc = "start"
    /\ LET inputInfo == mapInput(self.input1)
           r == inputDict(inputInfo, self.input1)
       IN  /\ locals' = [inputInfo |-> inputInfo]
           /\ fileNames' = r.files
           /\ pc' = IF ~r.ok THEN "raised"
                    ELSE IF r.files = << >> THEN "done" ELSE "taskIdentify"
           /\ hist' = [op |-> IF r.ok THEN "mapInput" ELSE "raise", rec |-> << >>,
                       before |-> << >>]
    /\ UNCHANGED <<task, currTrial, dfEvent, trialCounter, allTrials, rest, clock, nFrames,
                   nAnom, eventInfo, lastLine, closedLog, flatLog, self, respData, written>>

\* taskType = a.taskIdentify(f): taskDict[''] and taskDict of joined keys raise KeyError
main_taskIdentify ==
    /\ pc = "taskIdentify"
    /\ LET f == Head(fileNames)
           t == taskIdentify(f, task)
       IN  /\ task' = t
           /\ pc' = IF t \in TaskDictKeys THEN "evaluate" ELSE "raised"
           /\ hist' = [op |-> IF t \in TaskDictKeys THEN "taskIdentify" ELSE "raise",
                       rec |-> f, before |-> task]
    /\ UNCHANGED <<currTrial, dfEvent, trialCounter, allTrials, rest, clock, nFrames,
                   nAnom, locals, eventInfo, lastLine, closedLog, flatLog, batchVars>>

\* respData = taskType(f)
main_evaluate ==
    /\ pc = "evaluate"
    /\ \E r \in Evaluate(task, Head(fileNames), self) :
          /\ respData' = r.data
          /\ self' = r.inst
          /\ written' = written \o r.write
          /\ pc' = IF r.ok THEN "write" ELSE "raised"
          /\ hist' = [op |-> IF r.ok THEN "evaluate" ELSE "raise", rec |-> Head(fileNames),
                      before |-> written]
    /\ UNCHANGED <<task, currTrial, dfEvent, trialCounter, allTrials, rest, clock, nFrames,
                   nAnom, locals, eventInfo, lastLine, closedLog, flatLog, fileNames>>

\* a.writeRespCsv(respData); a.writeRespMat(respData); the next file
main_write ==
    /\ pc = "write"
    /\ written' = written \o WriteRespCsv(task, self, respData) \o WriteRespMat(task, self)
    /\ fileNames' = Tail(fileNames)
    /\ pc' = IF Tail(fileNames) = << >> THEN "done" ELSE "taskIdentify"
    /\ hist' = [op |-> "write", rec |-> Head(fileNames), before |-> written]
    /\ UNCHANGED <<task, currTrial, dfEvent, trialCounter, allTrials, rest, clock, nFrames,
                   nAnom, locals, eventInfo, lastLine, closedLog, flatLog, self, respData>>

InitBatch ==
    /\ task = ""
    /\ pc = "start"
    /\ \E input1 \in Inputs : self = [NewResponse EXCEPT !.input1 = input1]
    /\ fileNames = << >>
    /\ respData = NoData
    /\ written = << >>
    /\ currTrial = << >>
    /\ dfEvent = << >>
    /\ trialCounter = 0
    /\ allTrials = << >>
    /\ rest = << >>
    /\ clock = StartClock
    /\ nFrames = 0
    /\ nAnom = 0
    /\ hist = NoHist
    /\ lastLine = NoLine
    /\ locals = [inputInfo |-> ""]
    /\ eventInfo = [onset |-> << >>, event_num |-> << >>, response |-> << >>]
    /\ closedLog = << >>
    /\ flatLog = << >>

NextBatch == main_mapInput \/ main_taskIdentify \/ main_evaluate \/ main_write

SpecBatch == InitBatch /\ [][NextBatch]_vars

\* ============================================== rule matching, line by line
\* lines of one log, at most
MaxLines == 2

\* keepString and keepNumeric of evalFaces and evalReward as lists of
\* <<pattern, target field>> in dictionary order
KeepRules(t) ==
    IF t = "Faces"
    THEN [str |-> << <<"TrialCondition", "block_name">>,
                     <<"Procedure: (..)(BlockProc|FacesBlock)", "block_name">>,
                     <<"Procedure: (..)(Trial|Faces)Proc", "stimulus_type">>,
                     <<"Experiment", "run_type">>,
                     <<"Stimulus", "stimulus_file">> >>,
          num |-> << <<"(..)(TrialProbe|FacesProcProbe)(.OnsetTime)", "stim_on">>,
                     <<"^(..)(TrialProbe|FacesProcProbe)(.RT)", "rt">>,
                     <<"^(..)(TrialProbe|FacesProcProbe)(.RESP)", "resp">>,
                     <<"^(..)(TrialProbe|FacesProcProbe)(.CRESP)", "cresp">>,
                     <<"^(..)(TrialFixation|FacesProcFix)(.OnsetTime)", "fix_on">>,
                     <<"^(FacesRunBlockList)", "block_num">>,
                     <<"^(Match)(Shapes|Faces)(.OnsetTime)", "onset">> >>]
    ELSE [str |-> << <<"TrialCondition", "subtype">>,
                     <<"lowNum", "low_num">>,
                     <<"highNum", "high_num">>,
                     <<"(Reward|Loss|Control)BlockProc", "block_name">> >>,
          num |-> << <<"^(GamStim.OnsetTime|ControlStim.OnsetTime)", "guess_on">>,
                     <<"^(GamStim.RT|ControlStim.RT)", "rt">>,
                     <<"^(GamStim.RESP|ControlStim.RESP)", "resp">>,
                     <<"^(Feedback[RL]{1}.OnsetTime|ControlFeedbackStar.OnsetTime)", "num_on">>,
                     <<"^(Feedback(Up|Down)Arrow.OnsetTime|ControlFeedbackCircle.OnsetTime)",
                       "feed_on">>,
                     <<"GuessingFixation.OnsetTime", "fix_on">>,
                     <<"^(GuessingRunBlockList)", "block_num">>,
                     <<"^(GuessNumber.OnsetTime|PressButton.OnsetTime)", "onset">>,
                     <<"^(GamStim.OnsetToOnsetTime|ControlStim.OnsetToOnsetTime)",
                       "onset2onset">> >>]

\* A line of the log: its text, the patterns re.search finds in it, the
\* integer after ': ' (none when the value is omitted), the text after
\* ': ', that text up to 'BlockProc' when it names a Reward, Loss or
\* Control block ("" otherwise) and the feedbackDict entries found in the
\* key
LogLine(txt, has, tok, s, block, fb) ==
    [txt |-> txt, has |-> has, tok |-> tok, s |-> s, block |-> block, fb |-> fb]

\* lines of a Faces log and of a Reward log; one of each holds the text of
\* a second pattern in its value
GrammarLines(t) ==
    IF t = "Faces"
    THEN { LogLine("TrialCondition: Fear", {"TrialCondition"}, << >>, "Fear", "", ""),
           LogLine("Stimulus: face.bmp", {"Stimulus"}, << >>, "face.bmp", "", ""),
           LogLine("Stimulus: Experiment2_face.bmp", {"Experiment", "Stimulus"}, << >>,
                   "Experiment2_face.bmp", "", ""),
           LogLine("FearTrialProbe.OnsetTime: 5000",
                   {"(..)(TrialProbe|FacesProcProbe)(.OnsetTime)"}, << 5000 >>, "5000",
                   "", ""),
           LogLine("FearTrialProbe.RT: 0",
                   {"^(..)(TrialProbe|FacesProcProbe)(.RT)"}, << 0 >>, "0", "", ""),
           LogLine("FearTrialProbe.RESP:",
                   {"^(..)(TrialProbe|FacesProcProbe)(.RESP)"}, << >>, "", "", ""),
           LogLine("Running: FacesRunList", {}, << >>, "FacesRunList", "", "") }
    ELSE { LogLine("TrialCondition: Reward", {"TrialCondition"}, << >>, "Reward", "", ""),
           LogLine("Procedure: RewardBlockProc", {"(Reward|Loss|Control)BlockProc"},
                   << >>, "RewardBlockProc", "Reward", ""),
           LogLine("highNum: 8", {"highNum"}, << 8 >>, "8", "", ""),
           LogLine("TrialCondition: highNum", {"TrialCondition", "highNum"}, << >>,
                   "highNum", "", ""),
           LogLine("GamStim.OnsetTime: 5000",
                   {"^(GamStim.OnsetTime|ControlStim.OnsetTime)"}, << 5000 >>, "5000",
                   "", ""),
           LogLine("FeedbackUpArrow.OnsetTime: 6000",
                   {"^(Feedback(Up|Down)Arrow.OnsetTime|ControlFeedbackCircle.OnsetTime)"},
                   << 6000 >>, "6000", "", "up_arrow"),
           LogLine("GamStim.RT: 0", {"^(GamStim.RT|ControlStim.RT)"}, << 0 >>, "0", "", ""),
           LogLine("GamStim.RESP:", {"^(GamStim.RESP|ControlStim.RESP)"}, << >>, "",
                   "", ""),
           LogLine("Running: GuessingRunList", {}, << >>, "GuessingRunList", "", "") }

\* [v for k, v in rules.items() if re.search(k, l)]
Check(rules, line) ==
    LET hits == SelectSeq(rules, LAMBDA r : r[1] \in line.has)
    IN  [i \in 1..Len(hits) |-> hits[i][2]]

RECURSIVE Join(_)
\* ''.join(names)
Join(names) == IF names = << >> THEN "" ELSE Head(names) \o Join(Tail(names))

\* the strCheck / numCheck part of the loop body of evalFaces and
\* evalReward: the value is stored under the joined targets of all the
\* rules that match; evalReward shortens a block name and stores the
\* feedback symbol with its onset
Extract(t, trial, line) ==
    LET strCheck == Check(KeepRules(t).str, line)
        numCheck == Check(KeepRules(t).num, line)
        number == IF Len(line.tok) = 1 /\ ~(Join(numCheck) = "rt" /\ line.tok[1] = 0)
                  THEN Int2Num(line.tok[1]) ELSE Nan
    IN  IF strCheck # << >>
        THEN Put(trial, Join(strCheck),
                 IF t = "Reward" /\ line.block # "" THEN line.block ELSE line.s)
        ELSE IF numCheck # << >>
        THEN IF t = "Reward" /\ Len(line.tok) = 1 /\ Join(numCheck) = "feed_on"
             THEN Put(Put(trial, "feed_on", number), "feedback", line.fb)
             ELSE Put(trial, Join(numCheck), number)
        ELSE trial

\* one pass of the loop body for a line that is no sentinel
Extract_Line ==
    /\ pc = "reading" /\ rest # << >>
    /\ currTrial' = Extract(task, currTrial, Head(rest))
    /\ lastLine' = Head(rest)
    /\ rest' = Tail(rest)
    /\ hist' = [op |-> "extract", rec |-> currTrial, before |-> << >>]
    /\ UNCHANGED <<batchVars, task, pc, dfEvent, trialCounter, allTrials, clock, nFrames,
                   nAnom, closedLog, flatLog, locals, eventInfo>>

InitGrammar ==
    /\ task \in {"Faces", "Reward"}
    /\ pc = "reading"
    /\ currTrial = "trial_num" :> Int2Num(1)
    /\ rest \in UNION {[1..n -> GrammarLines(task)] : n \in 1..MaxLines}
    /\ dfEvent = << >>
    /\ trialCounter = 1
    /\ allTrials = << >>
    /\ clock = StartClock
    /\ nFrames = 0
    /\ nAnom = 0
    /\ hist = NoHist
    /\ lastLine = NoLine
    /\ locals = << >>
    /\ eventInfo = [onset |-> << >>, event_num |-> << >>, response |-> << >>]
    /\ closedLog = << >>
    /\ flatLog = << >>
    /\ self = NewResponse
    /\ fileNames = << >>
    /\ respData = NoData
    /\ written = << >>

NextGrammar == Extract_Line

SpecGrammar == InitGrammar /\ [][NextGrammar]_vars

\* ================================================================ evalPSAP
\* lines of one PSAP export, at most
MaxPsapLines == 4

\* A line of a PSAP export, "<time> <event> <number>": k is the branch of
\* the loop body its text selects (Test, Begin, End, Provocation, or
\* other), tok holds int(l.split(' ')[0]) and the number at the end of a
\* Provocation line, s is l.split(' ')[-1]
PsapLine(k, t) ==
    [k |-> k, tok |-> << t, 3 >>, s |-> IF (t \div Tick) % 2 = 1 THEN "Opt2" ELSE "Opt3"]

PsapKinds == {"Test", "Begin", "End", "Provocation", "other"}

\* the exports: every sequence of line kinds, the time growing by one tick per line
PsapFiles ==
    UNION {{[i \in 1..n |-> PsapLine(kinds[i], StartClock + i * Tick)] :
                kinds \in [1..n -> PsapKinds]} : n \in 1..MaxPsapLines}

\* pd.DataFrame(currTrial, index = [0]) as a row of dfEvent
PsapRow(trial) ==
    [trial_num |-> trial["trial_num"], option |-> trial["option"], onset |-> trial["onset"],
     duration |-> trial["duration"], provocation_time |-> trial["provocation_time"],
     presses |-> trial["presses"]]

\* the renaming of the options after the loop: 'Opt1' in dfEvent['option']
\* tests the index labels, which are integers, so the else branch is taken
MapOption(o) ==
    CASE o = "Opt2" -> "monetary"
      [] o = "Opt3" -> "stealing"
      [] o = "Opt4" -> "protection"
      [] OTHER -> o

\* a line that contains 'Test': lines are read from here on
evalPSAP_Test ==
    /\ task = "PSAP" /\ pc = "reading" /\ rest # << >>
    /\ Head(rest).k = "Test"
    /\ locals' = [locals EXCEPT !.readLine = TRUE]
    /\ lastLine' = Head(rest)
    /\ rest' = Tail(rest)
    /\ UNCHANGED <<batchVars, task, pc, currTrial, dfEvent, trialCounter, allTrials, clock,
                   nFrames, nAnom, hist, closedLog, flatLog, eventInfo>>

\* a line that is skipped: any line before 'Test', and a line without
\* Begin, End or Provocation
evalPSAP_Skip ==
    /\ task = "PSAP" /\ pc = "reading" /\ rest # << >>
    /\ Head(rest).k # "Test"
    /\ ~locals.readLine \/ Head(rest).k = "other"
    /\ lastLine' = Head(rest)
    /\ rest' = Tail(rest)
    /\ UNCHANGED <<batchVars, task, pc, currTrial, dfEvent, trialCounter, allTrials, clock,
                   nFrames, nAnom, hist, closedLog, flatLog, locals, eventInfo>>

\* 'Begin': a new record replaces currTrial
evalPSAP_Begin ==
    /\ task = "PSAP" /\ pc = "reading" /\ rest # << >>
    /\ locals.readLine /\ Head(rest).k = "Begin"
    /\ trialCounter' = trialCounter + 1
    /\ currTrial' = [trial_num |-> Int2Num(trialCounter + 1),
                     provocation_time |-> NaStr,
                     presses |-> NaStr,
                     onset |-> NumDiv(Int2Num(Head(rest).tok[1]), MsPerSecond),
                     option |-> Head(rest).s]
    /\ locals' = [locals EXCEPT !.bound = TRUE]
    /\ hist' = [op |-> "begin", rec |-> currTrial, before |-> dfEvent]
    /\ lastLine' = Head(rest)
    /\ rest' = Tail(rest)
    /\ UNCHANGED <<batchVars, task, pc, dfEvent, allTrials, clock, nFrames, nAnom,
                   closedLog, flatLog, eventInfo>>

\* 'End': the duration is set and currTrial is appended to the table;
\* NameError when no Begin line was read
evalPSAP_End ==
    /\ task = "PSAP" /\ pc = "reading" /\ rest # << >>
    /\ locals.readLine /\ Head(rest).k = "End"
    /\ LET trial == Put(currTrial, "duration",
                        NumSub(NumDiv(Int2Num(Head(rest).tok[1]), MsPerSecond),
                               currTrial["onset"]))
       IN  IF locals.bound
           THEN /\ currTrial' = trial
                /\ dfEvent' = Append(dfEvent, PsapRow(trial))
                /\ hist' = [op |-> "end", rec |-> trial, before |-> dfEvent]
                /\ pc' = "reading"
           ELSE /\ pc' = "raised"
                /\ hist' = [op |-> "raise", rec |-> currTrial, before |-> dfEvent]
                /\ UNCHANGED <<currTrial, dfEvent>>
    /\ lastLine' = Head(rest)
    /\ rest' = Tail(rest)
    /\ UNCHANGED <<batchVars, task, trialCounter, allTrials, clock, nFrames, nAnom,
                   closedLog, flatLog, locals, eventInfo>>

\* 'Provocation': time and presses are stored in currTrial; NameError when
\* no Begin line was read
evalPSAP_Provocation ==
    /\ task = "PSAP" /\ pc = "reading" /\ rest # << >>
    /\ locals.readLine /\ Head(rest).k = "Provocation"
    /\ IF locals.bound
       THEN /\ currTrial' =
                  Put(Put(currTrial, "provocation_time",
                          NumDiv(Int2Num(Head(rest).tok[1]), MsPerSecond)),
                      "presses", Int2Num(Head(rest).tok[2]))
            /\ UNCHANGED <<pc, hist>>
       ELSE /\ pc' = "raised"
            /\ hist' = [op |-> "raise", rec |-> currTrial, before |-> dfEvent]
            /\ UNCHANGED currTrial
    /\ lastLine' = Head(rest)
    /\ rest' = Tail(rest)
    /\ UNCHANGED <<batchVars, task, dfEvent, trialCounter, allTrials, clock, nFrames, nAnom,
                   closedLog, flatLog, locals, eventInfo>>

\* after the loop: a record without a duration is appended with 'n/a'
\* (NameError when no Begin line was read), the options are renamed and
\* the table is returned.  dfEvent.at[mask, 'option'] = ... is accepted by
\* some pandas releases and rejected by others: the call returns or raises.
evalPSAP_EndOfFile ==
    /\ task = "PSAP" /\ pc = "reading" /\ rest = << >>
    /\ LET df1 == IF "duration" \notin Keys(currTrial)
                  THEN Append(dfEvent, PsapRow(Put(currTrial, "duration", NaStr)))
                  ELSE dfEvent
           df2 == [i \in 1..Len(df1) |-> [df1[i] EXCEPT !.option = MapOption(@)]]
       IN  \/ /\ locals.bound
              /\ pc' = "eof"
              /\ dfEvent' = df2
              /\ currTrial' = IF "duration" \notin Keys(currTrial)
                              THEN Put(currTrial, "duration", NaStr) ELSE currTrial
              /\ hist' = [op |-> "return", rec |-> currTrial, before |-> dfEvent]
           \/ /\ pc' = "raised"
              /\ hist' = [op |-> "raise", rec |-> currTrial, before |-> dfEvent]
              /\ UNCHANGED <<dfEvent, currTrial>>
    /\ UNCHANGED <<batchVars, task, trialCounter, allTrials, rest, clock, nFrames, nAnom,
                   closedLog, flatLog, locals, eventInfo, lastLine>>

\* the state before the loop; f holds the lines of the file
InitPSAP ==
    /\ task = "PSAP"
    /\ pc = "reading"
    /\ currTrial = << >>
    /\ dfEvent = << >>
    /\ trialCounter = 0
    /\ allTrials = << >>
    /\ rest \in PsapFiles
    /\ clock = StartClock
    /\ nFrames = 0
    /\ nAnom = 0
    /\ hist = NoHist
    /\ lastLine = NoLine
    /\ locals = [readLine |-> FALSE, bound |-> FALSE, f |-> rest]
    /\ eventInfo = [onset |-> << >>, event_num |-> << >>, response |-> << >>]
    /\ closedLog = << >>
    /\ flatLog = << >>
    /\ self = NewResponse
    /\ fileNames = << >>
    /\ respData = NoData
    /\ written = << >>

NextPSAP ==
    \/ evalPSAP_Test
    \/ evalPSAP_Skip
    \/ evalPSAP_Begin
    \/ evalPSAP_End
    \/ evalPSAP_Provocation
    \/ evalPSAP_EndOfFile

SpecPSAP == InitPSAP /\ [][NextPSAP]_vars

\* ======================================================== properties
\* C1: a flattening step that handles a Standard trial adds exactly as many
\* rows as the task has roles (Faces 2, Reward 4, RLP 4), and one that
\* handles a block boundary (in RLP a break or get-ready record) adds
\* exactly one row.
C1_RowsAdded ==
    /\ hist.op = "standard" =>
          Len(dfEvent) = Len(hist.before) + (IF task = "Faces" THEN 2 ELSE 4)
    /\ hist.op = "boundary" => Len(dfEvent) = Len(hist.before) + 1

\* a boundary record was flattened onto a table that holds a trial's rows
C1_Witness ==
    /\ hist.op = "boundary"
    /\ Len(hist.before) >= 2
    /\ Len(dfEvent) = Len(hist.before) + 1
    /\ \E i \in 1..Len(flatLog) : ~IsBoundary(flatLog[i].rec) /\ flatLog[i].to = "event"

\* C2 as stated: after a block boundary is flattened, its row immediately
\* follows the last row of that block, i.e. it is the last of the rows that
\* carry the block's number (stated for a block number no earlier row
\* carries).
C2_BoundaryFollowsBlock ==
    (/\ hist.op = "boundary" /\ task \in {"Faces", "Reward"}
     /\ \A i \in 1..Len(hist.before) : hist.before[i].block_num # hist.rec["block_num"]) =>
        LET b == hist.rec["block_num"]
            blockRows == SelectSeq(Indices(dfEvent), LAMBDA i : dfEvent[i].block_num = b)
            p == Last(blockRows)
        IN  /\ dfEvent[p].block_name = "Instruction"
            /\ dfEvent[p].onset = hist.rec["onset"]
            /\ ~IsNumber(dfEvent[p].trial_num)

\* the Faces run of the example: two trials, the boundary of their block,
\* two more trials, all five records flattened
C2_ExampleRun ==
    /\ task = "Faces"
    /\ Len(flatLog) = 5
    /\ hist.op = "standard"
    /\ IsBoundary(flatLog[3].rec)
    /\ \A i \in {1, 2, 4, 5} : ~IsBoundary(flatLog[i].rec)

\* C2: after a block boundary is flattened, its row immediately precedes
\* the rows of that block: every row before it carries another block
\* number, it is named 'Instruction' and has no trial number, and the rows
\* of the block follow it up to the end of the table.  In the example (two
\* trials, the boundary, two trials) the final order is boundary row,
\* trial 1, trial 2, trial 3, trial 4.
C2_BoundaryPrecedesBlock ==
    /\ (hist.op = "boundary" /\ task \in {"Faces", "Reward"}) =>
          LET b == hist.rec["block_num"]
              blockRows == SelectSeq(Indices(dfEvent), LAMBDA i : dfEvent[i].block_num = b)
              p == blockRows[1]
          IN  /\ dfEvent[p].block_name = "Instruction"
              /\ dfEvent[p].onset = hist.rec["onset"]
              /\ ~IsNumber(dfEvent[p].trial_num)
              /\ blockRows = [i \in 1..(Len(dfEvent) - p + 1) |-> p + i - 1]
              /\ LET old == SelectSeq(Indices(hist.before),
                                      LAMBDA i : IsNull(hist.before[i].block_num)
                                                 \/ hist.before[i].block_num = b)
                 IN  /\ Len(blockRows) = Len(old) + 1
                     /\ \A i \in 1..Len(old) :
                           /\ dfEvent[p + i].trial_num = hist.before[old[i]].trial_num
                           /\ dfEvent[p + i].stimulus_type = hist.before[old[i]].stimulus_type
                           /\ dfEvent[p + i].onset = hist.before[old[i]].onset
    /\ C2_ExampleRun =>
          /\ dfEvent[1].block_name = "Instruction"
          /\ dfEvent[1].stimulus_type \in {"MatchShapes", "MatchFaces"}
          /\ Tail([i \in 1..Len(dfEvent) |-> dfEvent[i].stimulus_type])
               = << "stimulus", "fixation", "stimulus", "fixation",
                    "stimulus", "fixation", "stimulus", "fixation" >>
          /\ [i \in 1..Len(dfEvent) |-> dfEvent[i].trial_num]
               = << Nan, Int2Num(1), Int2Num(1), Int2Num(2), Int2Num(2),
                    Int2Num(3), Int2Num(3), Int2Num(4), Int2Num(4) >>

\* the boundary of the example run has been flattened behind two trials
C2_Witness ==
    /\ C2_ExampleRun
    /\ Len(dfEvent) = 9
    /\ dfEvent[1].block_name = "Instruction"

\* C3 as stated: after the end-of-paradigm normalization of a Faces or
\* Reward table the first onset is zero and every row has a non-null onset
\* and a non-null duration, whatever the trials were (stated for tables
\* whose first row has an onset).
C3_NormalizedComplete ==
    (pc = "terminal" /\ hist.op = "normalize" /\ IsNumber(hist.before[1].onset)) =>
        /\ dfEvent[1].onset = Int2Num(0)
        /\ \A i \in 1..Len(dfEvent) :
              IsNumber(dfEvent[i].onset) /\ IsNumber(dfEvent[i].duration)

\* the sequence of the onsets, and of the durations, of a table
Onsets(df) == [i \in 1..Len(df) |-> df[i].onset]
Durations(df) == [i \in 1..Len(df) |-> df[i].duration]

\* C4: normalization subtracts the first onset from every onset and turns
\* milliseconds into seconds (new * 1000 = old - first); the duration of
\* every row but the last is the next onset minus its own; the last
\* duration is the fallback, 2 for Faces and 3 for Reward.  Raw onsets
\* [5000, 5500, 6000, 8000] with fallback 2 give the onsets
\* [0, 1/2, 1, 3] and the durations [1/2, 1/2, 2, 2].
C4_NormalizedValues ==
    pc = "once" =>
        LET raw == hist.before
            n == Len(raw)
        IN  /\ Len(dfEvent) = n
            /\ \A i \in 1..n :
                  LET new == dfEvent[i].onset
                  IN  IF IsNumber(raw[i].onset) /\ IsNumber(raw[1].onset)
                      THEN /\ IsNumber(new)
                           /\ new[1] * 1000 = (raw[i].onset[1] - raw[1].onset[1]) * new[2]
                      ELSE ~IsNumber(new)
            /\ \A i \in 1..(n - 1) :
                  LET own == dfEvent[i].onset
                      nxt == dfEvent[i + 1].onset
                      dur == dfEvent[i].duration
                  IN  IF IsNumber(own) /\ IsNumber(nxt)
                      THEN /\ IsNumber(dur)
                           /\ dur[1] * own[2] * nxt[2]
                                = (nxt[1] * own[2] - own[1] * nxt[2]) * dur[2]
                      ELSE ~IsNumber(dur)
            /\ dfEvent[n].duration = <<IF task = "Faces" THEN 2 ELSE 3, 1>>
            /\ (task = "Faces" /\ Onsets(raw) = << <<5000, 1>>, <<5500, 1>>, <<6000, 1>>, <<8000, 1>> >>) =>
                  /\ Onsets(dfEvent) = << <<0, 1>>, <<1, 2>>, <<1, 1>>, <<3, 1>> >>
                  /\ Durations(dfEvent) = << <<1, 2>>, <<1, 2>>, <<2, 1>>, <<2, 1>> >>

\* the table of the example has been normalized with the Faces fallback
C4_Witness ==
    /\ pc = "once"
    /\ task = "Faces"
    /\ Onsets(hist.before) = << <<5000, 1>>, <<5500, 1>>, <<6000, 1>>, <<8000, 1>> >>
    /\ Onsets(dfEvent) = << <<0, 1>>, <<1, 2>>, <<1, 1>>, <<3, 1>> >>

\* C5 as stated: the normalization step applied to a table it has already
\* normalized returns the same onsets and durations.
C5_FixedPoint ==
    pc = "twice" =>
        /\ Onsets(dfEvent) = Onsets(hist.before)
        /\ Durations(dfEvent) = Durations(hist.before)

\* C5: the normalization step applied to a table it has already normalized
\* keeps the first onset and the last duration, divides every onset by
\* 1000 once more (new * 1000 = old) and recomputes the durations from
\* those onsets; onsets and durations stay the same exactly when every
\* onset of the table that is not null is zero.
C5_SecondPassRescales ==
    pc = "twice" =>
        LET once == hist.before
            n == Len(once)
        IN  /\ Len(dfEvent) = n
            /\ dfEvent[1].onset = once[1].onset
            /\ dfEvent[n].duration = once[n].duration
            /\ \A i \in 1..n :
                  LET old == once[i].onset
                      new == dfEvent[i].onset
                  IN  IF IsNumber(old) /\ IsNumber(once[1].onset)
                      THEN IsNumber(new) /\ new[1] * 1000 * old[2] = old[1] * new[2]
                      ELSE ~IsNumber(new)
            /\ \A i \in 1..(n - 1) :
                  LET own == dfEvent[i].onset
                      nxt == dfEvent[i + 1].onset
                      dur == dfEvent[i].duration
                  IN  IF IsNumber(own) /\ IsNumber(nxt)
                      THEN /\ IsNumber(dur)
                           /\ dur[1] * own[2] * nxt[2]
                                = (nxt[1] * own[2] - own[1] * nxt[2]) * dur[2]
                      ELSE ~IsNumber(dur)
            /\ (Onsets(dfEvent) = Onsets(once) /\ Durations(dfEvent) = Durations(once))
                  <=> (\A i \in 1..n : IsNumber(once[i].onset) => once[i].onset[1] = 0)

\* the normalized table of the example has been normalized once more
C5_Witness ==
    /\ pc = "twice"
    /\ Onsets(hist.before) = << <<0, 1>>, <<1, 2>>, <<1, 1>>, <<3, 1>> >>
    /\ Onsets(dfEvent) = << <<0, 1>>, <<1, 2000>>, <<1, 1000>>, <<3, 1000>> >>

\* a reaction-time line whose value is omitted: 'rt' in evalFaces,
\* evalReward and evalRLP, KeyPress<n>RT in evalBreath
OmittedRtLine == lastLine.k \in {"rt", "keypress_rt"} /\ lastLine.tok = << >>

\* C6 as stated: in every evaluator a reaction-time line with a key and no
\* value raises no error while the line is read, and the reaction time of
\* the open record is null, not zero.
C6_OmittedRtIsNull ==
    OmittedRtLine =>
        /\ hist.op # "lineRaise"
        /\ "rt" \in Keys(currTrial) => currTrial["rt"] = Nan

\* the record that was open at the terminal line is a trial with all its fields
OpenTrialAtTerminal ==
    /\ pc = "terminal"
    /\ \/ task = "Faces" /\ HasAll(hist.rec, FacesStandardKeys)
       \/ task = "Reward" /\ HasAll(hist.rec, RewardReadKeys \cup {"rt"})

C8_FlattenedAtTrialStart ==
    LET handed == SelectSeq(flatLog, LAMBDA e : e.by = "start")
    IN  /\ Len(handed) = Len(closedLog)
        /\ \A i \in 1..Len(handed) :
              /\ handed[i].rec = closedLog[i]
              /\ (task = "Reward" => HasAll(closedLog[i], {"guess_on", "num_on", "feed_on", "fix_on"}))
                    => handed[i].to = "event"

\* C9 as stated: a block boundary leaves every row that got its block
\* number from an earlier boundary where it was and as it was.
C9_ClosedBlocksUntouched ==
    (hist.op = "boundary" /\ task \in {"Faces", "Reward"}) =>
        \A i \in 1..Len(hist.before) :
            IsNumber(hist.before[i].block_num) => dfEvent[i] = hist.before[i]

\* C10: after the boundary of block b is flattened, every row that had no
\* block number before carries the number b (in Reward also the name of
\* block b where it had none), and no row of the table is without a block
\* number.
C10_BlockLabelled ==
    (hist.op = "boundary" /\ task \in {"Faces", "Reward"}) =>
        LET b == hist.rec["block_num"]
        IN  /\ IsNumber(b)
            /\ \A i \in 1..Len(dfEvent) : IsNumber(dfEvent[i].block_num)
            /\ \A j \in 1..Len(hist.before) :
                  IsNull(hist.before[j].block_num) =>
                      \E i \in 1..Len(dfEvent) :
                          dfEvent[i] =
                              [hist.before[j] EXCEPT
                                  !.block_num = b,
                                  !.block_name = IF task = "Reward" /\ @ = "n/a"
                                                 THEN hist.rec["block_name"] ELSE @]

\* a Reward boundary was flattened behind the four rows of a trial that had
\* neither block number nor block name
C10_Witness ==
    /\ hist.op = "boundary"
    /\ task = "Reward"
    /\ Len(hist.before) >= 4
    /\ \E j \in 1..Len(hist.before) :
          IsNull(hist.before[j].block_num) /\ hist.before[j].block_name = "n/a"
    /\ \A i \in 1..Len(dfEvent) : dfEvent[i].block_name \in {"Instruction", hist.rec["block_name"]}

\* ------------------------------------------------------------------ C11
\* the identity fields of a block boundary record of the task
IdentityKeys == IF task = "RLP" THEN RLPBreakKeys ELSE BoundaryKeys

\* C11: a record that the event function flattens as a block boundary
\* holds identity fields only (trial id, block name and number, onset);
\* a record with the identity fields and a further field is flattened as
\* a standard trial.
C11_BoundaryOnlyIdentity ==
    hist.op = "boundary" => Keys(hist.rec) \subseteq IdentityKeys

\* ------------------------------------------------------------------ C12
\* C12: when the end-of-paradigm normalization has run on a table that
\* holds a row without an onset, the file has failed with an error; the
\* normalization never completes on such a table.
C12_MissingOnsetRaises ==
    (hist.op = "normalize" /\ \E i \in 1..Len(hist.before) : ~IsNumber(hist.before[i].onset))
        => pc = "raised"

\* ------------------------------------------------------------------ C13
\* C13: while lines of the input file remain to be read, no output file
\* has been written for it; files are written only after the last line
\* has been consumed and the table has been normalized.
C13_NoWriteWhileReading ==
    pc = "reading" => written = << >>

\* ------------------------------------------------------------------ C14
\* C14: when the processing of a file of the batch has raised an error,
\* every other file of the batch has been processed: the failing file is
\* the only one left in the list.
C14_OtherFilesProcessed ==
    (pc = "raised" /\ fileNames # << >>) => Len(fileNames) = 1

\* ------------------------------------------------------------------ C15
\* the task identity of a file read on its own cannot be resolved
Unresolved(f) == taskIdentify(f, "") \notin TaskDictKeys

\* C15: a file whose task identity cannot be resolved is never handed to
\* an evaluator; its processing fails at the identification.
C15_UnresolvedFails ==
    pc = "evaluate" => ~Unresolved(Head(fileNames))

\* ------------------------------------------------------------------ C16
\* the files written for f when it is the only file of the batch
WrittenAlone(f) ==
    {WriteRespCsv(taskIdentify(f, ""), r.inst, r.data)
        \o WriteRespMat(taskIdentify(f, ""), r.inst) :
     r \in {x \in Evaluate(taskIdentify(f, ""), f, NewResponse) : x.ok}}

\* C16: the files written for a file at the end of its turn (the event
\* table under its output name and suffix, and the condition export) are
\* the ones written for that file when it is processed alone.
C16_SameAsAlone ==
    (hist.op = "write" /\ ~Unresolved(hist.rec)) =>
        SubSeq(written, Len(hist.before) + 1, Len(written)) \in WrittenAlone(hist.rec)

\* ------------------------------------------------------------------ C17
\* C17: the lists of the condition export have one length, and so have
\* the onsets and the durations of every condition, after any number of
\* files.
C17_ExportCardinalities ==
    /\ Len(self.spmStruct.names) = Len(self.spmStruct.onsets)
    /\ Len(self.spmStruct.onsets) = Len(self.spmStruct.durations)
    /\ \A i \in 1..Len(self.spmStruct.onsets) :
          Len(self.spmStruct.onsets[i]) = Len(self.spmStruct.durations[i])

\* two alcohol files have been processed and written, and a condition of
\* the second holds two events
C17_Witness ==
    /\ pc = "done"
    /\ Len(self.spmStruct.names) = 4 * Len(RowSummary)
    /\ \E i \in 2 * Len(RowSummary) + 1..4 * Len(RowSummary) :
          Len(self.spmStruct.onsets[i]) = 2
    /\ \E i \in 1..Len(written) :
          written[i].suffix = "RespSPM.mat" /\ written[i].event = self.spmStruct

\* ------------------------------------------------------------------ C20
\* C20: mapInput maps every existing .txt path to processSingleFile or to
\* processListFile: to processSingleFile when the first line is the header
\* sentinel or has the Time/Event/Number signature, to processListFile
\* otherwise, whichever encoding the file decodes in.
C20_SingleOrList ==
    (pc # "start" /\ self.input1.kind = "txt" /\ self.input1.exists) =>
        locals.inputInfo = IF self.input1.file.first \in {"header", "signature"}
                           THEN "processSingleFile" ELSE "processListFile"

\* ------------------------------------------------------------------ C19
\* the deferred record j is a trial, and the trial after it (the next
\* record, or the one behind an intervening block record)
IsTrial(all, j) == j \in 1..Len(all) /\ "subtype" \in Keys(all[j])
NextTrial(all, j) == IF IsTrial(all, j + 1) THEN j + 1 ELSE j + 2

\* the interval from the guess onset of trial j to the guess onset of the
\* next trial, less the guess, number and feedback durations and less the
\* instruction when a block record intervenes, in seconds
Remainder(all, j) ==
    NumSub(NumSub(NumDiv(NumSub(all[NextTrial(all, j)]["guess_on"], all[j]["guess_on"]),
                         MsPerSecond),
                  NumDiv(all[j]["onset2onset"], MsPerSecond)),
           Int2Num(IF IsTrial(all, j + 1) THEN 1 ELSE 1 + InstrDur))

\* C19: after the reduced-timing reconstruction, the fixation row of every
\* reconstructed trial that is followed by another trial has the duration
\* that remains up to that trial's guess onset, computed from the trial's
\* own onsets.
C19_FixationGetsRemainder ==
    (task = "Reward" /\ pc = "terminal" /\ hist.op = "reconstruct") =>
        \A j \in 1..Len(allTrials) - 1 :
            (IsTrial(allTrials, j) /\ IsTrial(allTrials, NextTrial(allTrials, j))) =>
                \A i \in 1..Len(dfEvent) :
                    (/\ dfEvent[i].stimulus_type = "fixation"
                     /\ dfEvent[i].trial_num =
                            Int2Num(Cardinality({k \in 1..j : IsTrial(allTrials, k)})))
                        => dfEvent[i].duration = Remainder(allTrials, j)

\* ------------------------------------------------------------------ C18
\* C18: reading a line never sets a field that is not a target field of
\* the task's rules: the open record holds trial_num, declared target
\* fields and, in Reward, the feedback symbol only.
C18_OnlyDeclaredFields ==
    Keys(currTrial) \subseteq
        {"trial_num", "feedback"}
        \cup {KeepRules(task).str[i][2] : i \in 1..Len(KeepRules(task).str)}
        \cup {KeepRules(task).num[i][2] : i \in 1..Len(KeepRules(task).num)}

\* ------------------------------------------------------------------ C21
\* C21: the reconstruction pass covers the whole list of deferred records:
\* the table holds a guess row for every deferred trial record, and when
\* the last deferred record is a block record no row is left without a
\* block label.
C21_WholeListCovered ==
    (task = "Reward" /\ pc = "terminal" /\ hist.op = "reconstruct") =>
        /\ Cardinality({i \in 1..Len(dfEvent) : dfEvent[i].stimulus_type = "guess"})
             = Cardinality({j \in 1..Len(allTrials) : IsTrial(allTrials, j)})
        /\ "block_name" \in Keys(Last(allTrials)) =>
               \A i \in 1..Len(dfEvent) : dfEvent[i].block_name # "n/a"

\* ------------------------------------------------------------------ C22
\* C22: evalReward defers a record only when its timing is incomplete: a
\* deferred record holds a guess onset without a number onset, or a block
\* name without a block onset; a trial with all four onsets is never
\* deferred.
C22_OnlyMissingTimingDeferred ==
    (task = "Reward" /\ hist.op = "defer") =>
        \/ "guess_on" \in Keys(hist.rec) /\ "num_on" \notin Keys(hist.rec)
        \/ "block_name" \in Keys(hist.rec) /\ "onset" \notin Keys(hist.rec)

\* ------------------------------------------------------------------ C23
\* C23: every record started in an RLP log has its rows in the table that
\* evalRLP returns, the record that is open at the end of the file
\* included.
C23_OpenRecordInTable ==
    (task = "RLP" /\ pc = "eof" /\ Cardinality(Keys(currTrial)) > 1) =>
        \E i \in 1..Len(dfEvent) : dfEvent[i].trial_num = currTrial["trial_num"]

\* ------------------------------------------------------------------ C24
\* the table a run normalization of evalLossAversion has just produced:
\* the table returned at the terminal line, else the content of the run
\* file written last
RunTable == IF pc = "terminal" THEN dfEvent ELSE Last(written).event

\* C24: in a normalized Loss Aversion run table the last row's duration is
\* the last recorded ITI in seconds (milliseconds / 1000), and every other
\* row's duration is the next row's onset minus its own.
C24_LastDurationIsItiSeconds ==
    (task = "LA_fMRI" /\ hist.op = "normalize") =>
        /\ Last(RunTable).duration = NumDiv(Last(hist.before).iti, MsPerSecond)
        /\ \A i \in 1..Len(RunTable) - 1 :
              (IsNumber(RunTable[i].onset) /\ IsNumber(RunTable[i + 1].onset)) =>
                  RunTable[i].duration = NumSub(RunTable[i + 1].onset, RunTable[i].onset)

\* ------------------------------------------------------------------ C25
\* the rows of an RLP table that carry a duration of their own
OwnDuration(row) == row.stimulus_type \in {"fixation", "cue", "response"}

\* C25: eventRLP gives the fixation, cue and response rows of a trial the
\* duration own offset - own onset in seconds; at the end of evalRLP these
\* rows keep it, every other row has the distance to the next row's onset,
\* a last row without a duration of its own has 30 s, and no duration is
\* null.
C25_RLPDurations ==
    /\ (task = "RLP" /\ hist.op = "standard") =>
          LET n == Len(dfEvent)
              r == hist.rec
          IN  /\ dfEvent[n - 3].duration
                    = NumDiv(NumSub(r["fix_off"], r["fix_on"]), MsPerSecond)
              /\ dfEvent[n - 2].duration
                    = NumDiv(NumSub(r["cue_off"], r["cue_on"]), MsPerSecond)
              /\ dfEvent[n - 1].duration
                    = NumDiv(NumSub(r["resp_off"], r["resp_on"]), MsPerSecond)
              /\ \A i \in n - 3 .. n - 1 : OwnDuration(dfEvent[i])
              /\ ~OwnDuration(dfEvent[n])
    /\ (task = "RLP" /\ pc = "eof") =>
          \A i \in 1..Len(dfEvent) :
              /\ IsNumber(dfEvent[i].duration)
              /\ dfEvent[i].duration =
                    IF OwnDuration(dfEvent[i]) THEN hist.before[i].duration
                    ELSE IF i < Len(dfEvent)
                    THEN NumSub(dfEvent[i + 1].onset, dfEvent[i].onset)
                    ELSE Int2Num(RLPLastDuration)

\* an RLP table is returned that holds a trial, a break row that is not
\* the last row, and a feedback row as its last row
C25_Witness ==
    /\ task = "RLP" /\ pc = "eof"
    /\ \E i \in 1..Len(dfEvent) - 1 : dfEvent[i].stimulus_type = "break"
    /\ Last(dfEvent).stimulus_type = "feedback"
    /\ Last(dfEvent).duration = Int2Num(RLPLastDuration)
    /\ \E i \in 1..Len(dfEvent) : dfEvent[i].stimulus_type = "getReady"

C27_NormalizedTableNotEmpty ==
    (/\ task = "LA_fMRI" /\ locals.bound
     /\ hist.op \in {"normalize", "raise"}
     /\ Keys(hist.rec) \subseteq {"trial_num", "level"}) =>
        Len(hist.before) > 0

\* ------------------------------------------------------------------ C28
\* the records evalFaces handed to eventFaces that are no block boundary
StandardHanded == SelectSeq(flatLog, LAMBDA e : ~IsBoundary(e.rec))

\* the rows of the table that carry trial number n
RowsOfTrial(n) == {i \in 1..Len(dfEvent) : dfEvent[i].trial_num = Int2Num(n)}

\* C28: in the Faces table the n-th trial of the file carries trial number
\* n, on its stimulus and fixation row and on no other row, however many
\* block frames lie between the trials; the row of a block frame has no
\* trial number.
C28_TrialNumbersConsecutive ==
    (task = "Faces" /\ pc # "raised") =>
        /\ \A n \in 1..Len(StandardHanded) :
              /\ StandardHanded[n].rec["trial_num"] = Int2Num(n)
              /\ Cardinality(RowsOfTrial(n)) = 2
              /\ \A i \in RowsOfTrial(n) :
                    dfEvent[i].stimulus_type \in {"stimulus", "fixation"}
        /\ \A i \in 1..Len(dfEvent) :
              /\ dfEvent[i].stimulus_type \in {"MatchShapes", "MatchFaces"}
                    => ~IsNumber(dfEvent[i].trial_num)
              /\ IsNumber(dfEvent[i].trial_num)
                    => dfEvent[i].trial_num[1] \in 1..Len(StandardHanded)

\* a Faces table with three trials and two block rows, the second block
\* row lying between the rows of trial 2 and trial 3 in the file
C28_Witness ==
    /\ task = "Faces" /\ pc = "terminal"
    /\ Len(StandardHanded) = 3
    /\ Cardinality({i \in 1..Len(dfEvent) : dfEvent[i].block_name = "Instruction"}) = 2
    /\ Len(flatLog) = 5
    /\ IsBoundary(flatLog[2].rec) /\ IsBoundary(flatLog[4].rec)
    /\ RowsOfTrial(3) # {}

\* ------------------------------------------------------------------ C29
\* the rows of trials in a table, in table order, by trial number, kind
\* and onset
TrialRows(df) ==
    LET rows == SelectSeq(df, LAMBDA r : r.stimulus_type \in
                    {"stimulus", "fixation", "guess", "number", "feedback"})
    IN  [i \in 1..Len(rows) |-> <<rows[i].trial_num, rows[i].stimulus_type, rows[i].onset>>]

\* C29: a block boundary adds one row to the table and moves rows only:
\* the rows of trials are the same as before, none lost, none repeated,
\* in the same order.
C29_RespliceKeepsRows ==
    (task \in {"Faces", "Reward"} /\ hist.op = "boundary") =>
        /\ Len(dfEvent) = Len(hist.before) + 1
        /\ TrialRows(dfEvent) = TrialRows(hist.before)

\* ------------------------------------------------------------------ C30
\* the Begin lines of the file that come after its first 'Test' line
BeginsAfterTest(f) ==
    {i \in 1..Len(f) : f[i].k = "Begin" /\ \E j \in 1..i - 1 : f[j].k = "Test"}

\* C30: the table evalPSAP returns holds one row for every Begin line after
\* the 'Test' marker, and no trial number twice.
C30_OneRowPerBegin ==
    (task = "PSAP" /\ pc = "eof") =>
        /\ Len(dfEvent) = Cardinality(BeginsAfterTest(locals.f))
        /\ \A i, j \in 1..Len(dfEvent) :
              dfEvent[i].trial_num = dfEvent[j].trial_num => i = j
====
